---- MODULE Spec2Model ----
(***************************************************************************)
(* Model of the accounting core of equity-tracker:                         *)
(*   - FIFOEngine (app/services/fifo_engine.py): lot queue and matching    *)
(*   - AllocationManager (app/services/allocation_manager.py): the         *)
(*     allocation ledger of one (stock, account) pair on top of the        *)
(*     engine rebuilt from the pair's Trade rows.                          *)
(*                                                                         *)
(* Dates are day numbers.  Prices are Numeric(15,4) values, held as the    *)
(* integer number of 0.0001 units (PriceScale units per currency unit).    *)
(***************************************************************************)
EXTENDS Integers, Sequences, FiniteSets, TLC

VARIABLES
    engine,       \* SpecFifo: one FIFOEngine instance driven directly
    hist,         \* SpecFifo: log of the calls made on the engine
    trades,       \* SpecLedger: Trade rows of the pair
    allocations,  \* SpecLedger: Allocation rows of the pair (session view)
    next_id,      \* SpecLedger: next autoincrement Allocation.id
    requests,     \* SpecRace: each worker's request between its check and its write
    corporate_actions,  \* SpecCorporate: CorporateAction rows
    last          \* the last call: its arguments and its outcome

vars == <<engine, hist, trades, allocations, next_id, requests, corporate_actions, last>>

----------------------------------------------------------------------------
(* Bounds and input domains *)

MaxOps == 4          \* calls made on the directly driven engine
MaxAllocId == 2      \* Allocation ids handed out in one run

PriceScale == 10000  \* Numeric(15,4): four decimal places
LTCG_DAYS == 365     \* long-term threshold, in days

NULL == -1           \* a missing trade_datetime
DayTicks == 10       \* datetime = trade_date * DayTicks + time of day

BuyDates == {0, 30}
SellDates == {365, 366, 400}
BuyQuantities == {50, 100}
SellQuantities == {30, 50, 120}
BuyPrices == {50 * PriceScale, 55 * PriceScale}
SellPrices == {60 * PriceScale}

Min(a, b) == IF a < b THEN a ELSE b
Max(a, b) == IF a > b THEN a ELSE b

----------------------------------------------------------------------------
(* FIFOEngine *)

NewEngine ==
    [buy_lots |-> <<>>, matched_lots |-> <<>>, total_bought |-> 0, total_sold |-> 0]

BuyLot(trade_date, trade_datetime, quantity, price, trade_id) ==
    [trade_date |-> trade_date, trade_datetime |-> trade_datetime,
     quantity |-> quantity, price |-> price,
     remaining_qty |-> quantity, trade_id |-> trade_id]

RECURSIVE SumRemaining(_)
SumRemaining(lots) ==
    IF lots = <<>> THEN 0 ELSE Head(lots).remaining_qty + SumRemaining(Tail(lots))

get_available_quantity(e) == SumRemaining(e.buy_lots)

\* (mutation) the new lot is put at the head of the queue
process_buy_Prepends(e, trade_date, quantity, price, trade_id, trade_datetime) ==
    [e EXCEPT !.buy_lots = <<BuyLot(trade_date, trade_datetime, quantity, price, trade_id)>> \o @,
              !.total_bought = @ + quantity]

process_buy(e, trade_date, quantity, price, trade_id, trade_datetime) ==
    [e EXCEPT !.buy_lots = Append(@, BuyLot(trade_date, trade_datetime, quantity, price, trade_id)),
              !.total_bought = @ + quantity]

TaxTerm_AtLeast(holding_days) == IF holding_days >= LTCG_DAYS THEN "LTCG" ELSE "STCG"

TaxTerm(holding_days) == IF holding_days > LTCG_DAYS THEN "LTCG" ELSE "STCG"

\* (mutation) the buy value of a realized record is taken at the sell price
MatchedLot_BuyValueAtSellPrice(buy_lot, matched_qty, trade_date, price, trade_id) ==
    [entry_date |-> buy_lot.trade_date,
     exit_date |-> trade_date,
     quantity |-> matched_qty,
     buy_price |-> buy_lot.price,
     sell_price |-> price,
     buy_value |-> matched_qty * price,
     sell_value |-> matched_qty * price,
     profit |-> matched_qty * price - matched_qty * buy_lot.price,
     holding_days |-> trade_date - buy_lot.trade_date,
     tax_term |-> TaxTerm(trade_date - buy_lot.trade_date),
     buy_trade_id |-> buy_lot.trade_id,
     sell_trade_id |-> trade_id]

MatchedLot(buy_lot, matched_qty, trade_date, price, trade_id) ==
    [entry_date |-> buy_lot.trade_date,
     exit_date |-> trade_date,
     quantity |-> matched_qty,
     buy_price |-> buy_lot.price,
     sell_price |-> price,
     buy_value |-> matched_qty * buy_lot.price,
     sell_value |-> matched_qty * price,
     profit |-> matched_qty * price - matched_qty * buy_lot.price,
     holding_days |-> trade_date - buy_lot.trade_date,
     tax_term |-> TaxTerm(trade_date - buy_lot.trade_date),
     buy_trade_id |-> buy_lot.trade_id,
     sell_trade_id |-> trade_id]

\* (mutation) matching that takes the newest lot first
RECURSIVE SellLoop_NewestFirst(_, _, _, _, _, _)
SellLoop_NewestFirst(lots, matched, remaining_sell, trade_date, price, trade_id) ==
    IF remaining_sell > 0 /\ lots # <<>>
    THEN LET n == Len(lots)
             buy_lot == lots[n]
             matched_qty == Min(remaining_sell, buy_lot.remaining_qty)
             rec == MatchedLot(buy_lot, matched_qty, trade_date, price, trade_id)
             left == buy_lot.remaining_qty - matched_qty
             lots2 == IF left = 0
                      THEN SubSeq(lots, 1, n - 1)
                      ELSE SubSeq(lots, 1, n - 1) \o <<[buy_lot EXCEPT !.remaining_qty = left]>>
         IN SellLoop_NewestFirst(lots2, Append(matched, rec), remaining_sell - matched_qty,
                                 trade_date, price, trade_id)
    ELSE [lots |-> lots, matched |-> matched]

\* The while loop of process_sell: returns the lot queue and the records
\* matched once the loop has ended.
RECURSIVE SellLoop(_, _, _, _, _, _)
SellLoop(lots, matched, remaining_sell, trade_date, price, trade_id) ==
    IF remaining_sell > 0 /\ lots # <<>>
    THEN LET buy_lot == Head(lots)
             matched_qty == Min(remaining_sell, buy_lot.remaining_qty)
             rec == MatchedLot(buy_lot, matched_qty, trade_date, price, trade_id)
             left == buy_lot.remaining_qty - matched_qty
             lots2 == IF left = 0
                      THEN Tail(lots)
                      ELSE <<[buy_lot EXCEPT !.remaining_qty = left]>> \o Tail(lots)
         IN SellLoop(lots2, Append(matched, rec), remaining_sell - matched_qty,
                     trade_date, price, trade_id)
    ELSE [lots |-> lots, matched |-> matched]

\* (mutation) no holdings check: an oversell is clamped to what is queued
process_sell_Clamps(e, trade_date, quantity, price, trade_id) ==
    LET r == SellLoop(e.buy_lots, <<>>, quantity, trade_date, price, trade_id)
    IN [error |-> "none",
        engine |-> [e EXCEPT !.buy_lots = r.lots,
                             !.matched_lots = @ \o r.matched,
                             !.total_sold = @ + quantity],
        matched |-> r.matched]

\* (mutation) the holdings check is made after the matching loop has run
process_sell_ChecksLate(e, trade_date, quantity, price, trade_id) ==
    LET r == SellLoop(e.buy_lots, <<>>, quantity, trade_date, price, trade_id)
    IN IF quantity > get_available_quantity(e)
       THEN [error |-> "ValueError",
             engine |-> [e EXCEPT !.buy_lots = r.lots, !.matched_lots = @ \o r.matched],
             matched |-> <<>>]
       ELSE [error |-> "none",
             engine |-> [e EXCEPT !.buy_lots = r.lots,
                                  !.matched_lots = @ \o r.matched,
                                  !.total_sold = @ + quantity],
             matched |-> r.matched]

\* Result of process_sell: error is "ValueError" and the engine is untouched,
\* or error is "none" and matched is the returned list.
process_sell(e, trade_date, quantity, price, trade_id) ==
    IF quantity > get_available_quantity(e)
    THEN [error |-> "ValueError", engine |-> e, matched |-> <<>>]
    ELSE LET r == SellLoop(e.buy_lots, <<>>, quantity, trade_date, price, trade_id)
         IN [error |-> "none",
             engine |-> [e EXCEPT !.buy_lots = r.lots,
                                  !.matched_lots = @ \o r.matched,
                                  !.total_sold = @ + quantity],
             matched |-> r.matched]

----------------------------------------------------------------------------
(* SpecFifo: a FIFOEngine driven call by call *)

\* Two requests of the web application can be served at the same time,
\* each with a database session of its own.
Workers == {1, 2}
Idle == [pc |-> "idle"]
NoRequests == [w \in Workers |-> Idle]

NoCall == [op |-> "none"]

InitFifo ==
    /\ engine = NewEngine
    /\ hist = <<>>
    /\ trades = {}
    /\ allocations = {}
    /\ next_id = 1
    /\ requests = NoRequests
    /\ corporate_actions = {}
    /\ last = NoCall

CallBuy ==
    /\ Len(hist) < MaxOps
    /\ \E d \in BuyDates, q \in BuyQuantities, p \in BuyPrices :
         LET id == Len(hist) + 1
             call == [op |-> "process_buy", trade_date |-> d, quantity |-> q,
                      price |-> p, trade_id |-> id, error |-> "none", matched |-> <<>>]
         IN /\ engine' = process_buy(engine, d, q, p, id, NULL)
            /\ hist' = Append(hist, call)
            /\ last' = call
    /\ UNCHANGED <<requests, corporate_actions, trades, allocations, next_id>>

CallSell ==
    /\ Len(hist) < MaxOps
    /\ \E d \in SellDates, q \in SellQuantities, p \in SellPrices :
         LET id == Len(hist) + 1
             r == process_sell(engine, d, q, p, id)
             call == [op |-> "process_sell", trade_date |-> d, quantity |-> q,
                      price |-> p, trade_id |-> id, error |-> r.error, matched |-> r.matched]
         IN /\ engine' = r.engine
            /\ hist' = Append(hist, call)
            /\ last' = call
    /\ UNCHANGED <<requests, corporate_actions, trades, allocations, next_id>>

NextFifo == CallBuy \/ CallSell

SpecFifo == InitFifo /\ [][NextFifo]_vars

----------------------------------------------------------------------------
(* Properties of the FIFO engine (SpecFifo) *)

RECURSIVE SumCalls(_, _, _)
SumCalls(h, op, error) ==
    IF h = <<>> THEN 0
    ELSE (IF Head(h).op = op /\ Head(h).error = error THEN Head(h).quantity ELSE 0)
         + SumCalls(Tail(h), op, error)

TotalPurchased == SumCalls(hist, "process_buy", "none")
TotalDisposed == SumCalls(hist, "process_sell", "none")

RECURSIVE SumQuantity(_)
SumQuantity(recs) ==
    IF recs = <<>> THEN 0 ELSE Head(recs).quantity + SumQuantity(Tail(recs))

\* C2: after any sequence of process_buy and process_sell calls, failing
\* sells included, get_available_quantity() equals the total quantity of all
\* purchases minus the total quantity of all accepted disposals, and it is
\* never negative.
C2_AvailableIsBoughtMinusSold ==
    /\ get_available_quantity(engine) = TotalPurchased - TotalDisposed
    /\ get_available_quantity(engine) >= 0

C2_Witness ==
    /\ \E i \in 1..Len(hist) : hist[i].op = "process_sell" /\ hist[i].error = "ValueError"
    /\ \E i \in 1..Len(hist) : hist[i].op = "process_sell" /\ hist[i].error = "none"
    /\ get_available_quantity(engine) > 0
    /\ TotalDisposed > 0

\* A process_sell call has just been made (hist grows by exactly that call).
SellCalled == hist' # hist /\ last'.op = "process_sell"

\* C3: process_sell with a quantity greater than the sum of the remaining
\* quantities of all queued lots fails with an error and changes nothing:
\* lot queue, remaining quantities, realized list and totals are as before.
C3_OversellFailsUnchanged ==
    [][(SellCalled /\ last'.quantity > SumRemaining(engine.buy_lots))
          => /\ last'.error = "ValueError"
             /\ last'.matched = <<>>
             /\ engine'.buy_lots = engine.buy_lots
             /\ engine'.matched_lots = engine.matched_lots
             /\ engine'.total_bought = engine.total_bought
             /\ engine'.total_sold = engine.total_sold]_vars

C3_Witness ==
    /\ last.op = "process_sell"
    /\ last.error = "ValueError"
    /\ engine.buy_lots # <<>>
    /\ engine.matched_lots # <<>>

\* Quantity of the first n lots of a queue.
RECURSIVE SumFirst(_, _)
SumFirst(lots, n) ==
    IF n = 0 \/ lots = <<>> THEN 0
    ELSE Head(lots).remaining_qty + SumFirst(Tail(lots), n - 1)

\* What head-first consumption of q units requires of the returned records M
\* and of the queue after the call, given the queue L before the call.
ConsumesFromHead(L, M, Lafter, q, exit_date) ==
    LET n == Len(M) IN
    /\ n >= 1 /\ n <= Len(L)
    /\ \A i \in 1..n :
         /\ M[i].quantity = Min(q - SumFirst(L, i - 1), L[i].remaining_qty)
         /\ M[i].quantity > 0
         /\ M[i].buy_price = L[i].price
         /\ M[i].entry_date = L[i].trade_date
         /\ M[i].buy_trade_id = L[i].trade_id
         /\ M[i].exit_date = exit_date
         /\ (i < n => M[i].quantity = L[i].remaining_qty)
    /\ SumQuantity(M) = q
    /\ Lafter = (IF M[n].quantity = L[n].remaining_qty
                 THEN <<>>
                 ELSE <<[L[n] EXCEPT !.remaining_qty = @ - M[n].quantity]>>)
                \o SubSeq(L, n + 1, Len(L))

ExampleHist(h) ==
    /\ Len(h) = 3
    /\ h[1].op = "process_buy" /\ h[1].quantity = 100
    /\ h[1].price = 50 * PriceScale /\ h[1].trade_date = 0
    /\ h[2].op = "process_buy" /\ h[2].quantity = 50
    /\ h[2].price = 55 * PriceScale /\ h[2].trade_date = 30
    /\ h[3].op = "process_sell" /\ h[3].quantity = 120
    /\ h[3].price = 60 * PriceScale /\ h[3].trade_date = 400

ExampleResult ==
    /\ last.error = "none"
    /\ Len(last.matched) = 2
    /\ last.matched[1].quantity = 100
    /\ last.matched[1].buy_price = 50 * PriceScale
    /\ last.matched[1].holding_days = 400
    /\ last.matched[1].tax_term = "LTCG"
    /\ last.matched[2].quantity = 20
    /\ last.matched[2].buy_price = 55 * PriceScale
    /\ last.matched[2].holding_days = 370
    /\ last.matched[2].tax_term = "LTCG"
    /\ Len(engine.buy_lots) = 1
    /\ engine.buy_lots[1].remaining_qty = 30
    /\ engine.buy_lots[1].price = 55 * PriceScale

\* C4: a successful process_sell of quantity q consumes lots strictly from
\* the head of the queue: one realized record per lot touched, in queue
\* order, of quantity min(still to dispose, lot remaining) with the lot's
\* price, date and transaction id; the quantities sum to q; every touched lot
\* but possibly the last is fully consumed and evicted; the lots behind are
\* unchanged.  Buys 100@50 (day 0), 50@55 (day 30) and a sell of 120@60
\* (day 400) give (100, 50, 400 days, LTCG), (20, 55, 370 days, LTCG) and
\* leave 30 units @ 55.
C4_SellConsumesHeadFirst ==
    /\ [][(SellCalled /\ last'.error = "none")
            => /\ ConsumesFromHead(engine.buy_lots, last'.matched, engine'.buy_lots,
                                   last'.quantity, last'.trade_date)
               /\ engine'.matched_lots = engine.matched_lots \o last'.matched]_vars
    /\ [](ExampleHist(hist) => ExampleResult)

C4_Witness ==
    /\ ExampleHist(hist)
    /\ Len(last.matched) = 2
    /\ Len(engine.buy_lots) = 1

\* C5: every realized record has holding_days equal to the disposal date
\* minus the matched lot's origin date, and is long-term (LTCG) if and only
\* if holding_days > 365: exactly 365 days is short-term, 366 is long-term.
C5_HoldingDaysAndTaxTerm ==
    \A i \in 1..Len(engine.matched_lots) :
        LET m == engine.matched_lots[i] IN
        /\ m.holding_days = hist[m.sell_trade_id].trade_date - hist[m.buy_trade_id].trade_date
        /\ m.tax_term \in {"LTCG", "STCG"}
        /\ (m.tax_term = "LTCG") <=> (m.holding_days > 365)
        /\ (m.holding_days = 365 => m.tax_term = "STCG")
        /\ (m.holding_days = 366 => m.tax_term = "LTCG")

C5_Witness ==
    /\ \E i \in 1..Len(engine.matched_lots) :
         engine.matched_lots[i].holding_days = 365 /\ engine.matched_lots[i].tax_term = "STCG"
    /\ \E i \in 1..Len(engine.matched_lots) :
         engine.matched_lots[i].holding_days = 366 /\ engine.matched_lots[i].tax_term = "LTCG"

----------------------------------------------------------------------------
(* Trade rows of the pair and the engine rebuilt from them *)

None == -1           \* an argument that was not passed

\* The purchase the pair starts with.
FirstTrade ==
    [trade_type |-> "buy", trade_date |-> 0, trade_datetime |-> 0 * DayTicks + 5,
     quantity |-> 100, price |-> 50 * PriceScale, trade_id |-> 1]

\* The trades a later tradebook can bring for the pair; trade_id is unique
\* per account, so each is stored at most once.  The sale may come with or
\* without a timestamp, and a timestamped sale may be of 30 or of 60 units.
TradeInputs ==
    { [trade_type |-> "buy", trade_date |-> 30, trade_datetime |-> dt,
       quantity |-> 50, price |-> 55 * PriceScale, trade_id |-> 2]
        : dt \in {30 * DayTicks + 5} }
    \cup
    { [trade_type |-> "sell", trade_date |-> 400, trade_datetime |-> dt,
       quantity |-> 30, price |-> 60 * PriceScale, trade_id |-> 3]
        : dt \in {NULL, 400 * DayTicks + 5} }
    \cup
    { [trade_type |-> "sell", trade_date |-> 400, trade_datetime |-> 400 * DayTicks + 5,
       quantity |-> 60, price |-> 60 * PriceScale, trade_id |-> 3] }

\* ORDER BY trade_datetime ASC NULLS FIRST, trade_date ASC.  Rows equal on
\* both keys come in an order SQL leaves open; here by trade_id.
TradeBefore(a, b) ==
    IF a.trade_datetime # b.trade_datetime
    THEN a.trade_datetime = NULL
         \/ (b.trade_datetime # NULL /\ a.trade_datetime < b.trade_datetime)
    ELSE IF a.trade_date # b.trade_date
         THEN a.trade_date < b.trade_date
         ELSE a.trade_id < b.trade_id

RECURSIVE OrderedTrades(_)
OrderedTrades(rows) ==
    IF rows = {} THEN <<>>
    ELSE LET first == CHOOSE r \in rows : \A o \in rows \ {r} : TradeBefore(r, o)
         IN <<first>> \o OrderedTrades(rows \ {first})

RECURSIVE ReplayTrades(_, _)
ReplayTrades(e, ordered) ==
    IF ordered = <<>> THEN e
    ELSE LET trade == Head(ordered)
             e2 == IF trade.trade_type = "buy"
                   THEN process_buy(e, trade.trade_date, trade.quantity, trade.price,
                                    trade.trade_id, trade.trade_datetime)
                   ELSE process_sell(e, trade.trade_date, trade.quantity, trade.price,
                                     trade.trade_id).engine
         IN ReplayTrades(e2, Tail(ordered))

GetFifoEngine(rows) == ReplayTrades(NewEngine, OrderedTrades(rows))

\* The engine an AllocationManager of the pair builds from the stored trades
\* (built once per manager and reused by its methods).  It is a function of
\* the Trade rows alone, so SpecLedger keeps it in the variable engine and
\* rebuilds it whenever the rows change.
Fifo == engine

get_total_holdings(fifo) == get_available_quantity(fifo)

get_current_holdings_as_lots(e) ==
    SelectSeq(e.buy_lots, LAMBDA lot : lot.remaining_qty > 0)

----------------------------------------------------------------------------
(* AllocationManager *)

Owners == {1, 2}           \* Owner rows that exist
Goals == {1, 2}            \* Goal rows that exist
\* <<owner_id, goal_id, quantity>> of the create calls made (9: no such row)
CreateArgs ==
    { <<1, 1, 0>>, <<1, 1, 30>>, <<1, 1, 90>>, <<1, 1, 150>>,
      <<9, 1, 30>>, <<9, 9, 150>>, <<1, 9, 150>> }
\* <<new_quantity, new_owner_id, new_goal_id>> of the update calls made
UpdateArgs ==
    { <<None, 2, 2>>, <<None, 9, None>>, <<None, None, 9>>, <<0, 2, None>>,
      <<30, None, None>>, <<120, None, None>>, <<120, 2, 2>> }

RECURSIVE SumAllocated(_)
SumAllocated(rows) ==
    IF rows = {} THEN 0
    ELSE LET a == CHOOSE x \in rows : TRUE
         IN a.quantity + SumAllocated(rows \ {a})

get_allocated_units(allocs) == SumAllocated(allocs)

\* (mutation) units already allocated are not subtracted
get_available_units_IgnoresAllocated(fifo, allocs) == Max(0, get_total_holdings(fifo))

get_available_units(fifo, allocs) ==
    Max(0, get_total_holdings(fifo) - get_allocated_units(allocs))

\* The Decimal quotient total_value / total_qty as it is held by the
\* Numeric(15,4) column buy_price: the nearest multiple of 0.0001.
Numeric15_4(total_value, total_qty) == (2 * total_value + total_qty) \div (2 * total_qty)

\* The for loop of get_weighted_average_price.
RECURSIVE WeightedLoop(_, _, _, _, _, _)
WeightedLoop(lots, total_value, total_qty, earliest_date, remaining_to_allocate, lots_to_skip) ==
    IF lots = <<>>
    THEN [total_value |-> total_value, total_qty |-> total_qty, earliest_date |-> earliest_date]
    ELSE LET lot == Head(lots)
             skip_from_lot == IF lots_to_skip > 0 THEN Min(lots_to_skip, lot.remaining_qty) ELSE 0
             available_in_lot == lot.remaining_qty - skip_from_lot
             skip2 == lots_to_skip - skip_from_lot
             take_qty == Min(remaining_to_allocate, available_in_lot)
         IN IF available_in_lot <= 0
            THEN WeightedLoop(Tail(lots), total_value, total_qty, earliest_date,
                              remaining_to_allocate, skip2)
            ELSE IF remaining_to_allocate - take_qty <= 0
                 THEN [total_value |-> total_value + take_qty * lot.price,
                       total_qty |-> total_qty + take_qty,
                       earliest_date |-> IF earliest_date = None THEN lot.trade_date
                                         ELSE earliest_date]
                 ELSE WeightedLoop(Tail(lots), total_value + take_qty * lot.price,
                                   total_qty + take_qty,
                                   IF earliest_date = None THEN lot.trade_date ELSE earliest_date,
                                   remaining_to_allocate - take_qty, skip2)

\* (mutation) the units already allocated are not skipped
get_weighted_average_price_NoSkip(fifo, allocs, quantity) ==
    LET lots == get_current_holdings_as_lots(fifo)
        r == WeightedLoop(lots, 0, 0, None, quantity, 0)
    IN IF r.total_qty = 0
       THEN [error |-> "InsufficientUnitsError", avg_price |-> None, buy_date |-> None]
       ELSE [error |-> "none",
             avg_price |-> Numeric15_4(r.total_value, r.total_qty),
             buy_date |-> r.earliest_date]

get_weighted_average_price(fifo, allocs, quantity) ==
    LET lots == get_current_holdings_as_lots(fifo)
        r == WeightedLoop(lots, 0, 0, None, quantity, get_allocated_units(allocs))
    IN IF r.total_qty = 0
       THEN [error |-> "InsufficientUnitsError", avg_price |-> None, buy_date |-> None]
       ELSE [error |-> "none",
             avg_price |-> Numeric15_4(r.total_value, r.total_qty),
             buy_date |-> r.earliest_date]

Allocation(id, owner_id, goal_id, quantity, buy_price, buy_date) ==
    [id |-> id, owner_id |-> owner_id, goal_id |-> goal_id,
     quantity |-> quantity, buy_price |-> buy_price, buy_date |-> buy_date]

\* (mutation) the requested quantity is not checked against the available units
create_allocation_NoUnitsCheck(fifo, allocs, id, owner_id, goal_id, quantity) ==
    IF owner_id \notin Owners
    THEN [error |-> "InvalidOwnerError", allocations |-> allocs]
    ELSE IF goal_id \notin Goals
    THEN [error |-> "InvalidGoalError", allocations |-> allocs]
    ELSE LET w == get_weighted_average_price(fifo, allocs, quantity)
         IN IF w.error # "none"
            THEN [error |-> w.error, allocations |-> allocs]
            ELSE [error |-> "none",
                  allocations |-> allocs \cup
                      {Allocation(id, owner_id, goal_id, quantity, w.avg_price, w.buy_date)}]

\* (mutation) the quantity is checked before the owner and the goal
create_allocation_QuantityFirst(fifo, allocs, id, owner_id, goal_id, quantity) ==
    IF quantity > get_available_units(fifo, allocs)
    THEN [error |-> "InsufficientUnitsError", allocations |-> allocs]
    ELSE IF owner_id \notin Owners
    THEN [error |-> "InvalidOwnerError", allocations |-> allocs]
    ELSE IF goal_id \notin Goals
    THEN [error |-> "InvalidGoalError", allocations |-> allocs]
    ELSE LET w == get_weighted_average_price(fifo, allocs, quantity)
         IN IF w.error # "none"
            THEN [error |-> w.error, allocations |-> allocs]
            ELSE [error |-> "none",
                  allocations |-> allocs \cup
                      {Allocation(id, owner_id, goal_id, quantity, w.avg_price, w.buy_date)}]

\* Outcome of create_allocation: the error raised (or "none") and the
\* Allocation rows after the call.
create_allocation(fifo, allocs, id, owner_id, goal_id, quantity) ==
    IF owner_id \notin Owners
    THEN [error |-> "InvalidOwnerError", allocations |-> allocs]
    ELSE IF goal_id \notin Goals
    THEN [error |-> "InvalidGoalError", allocations |-> allocs]
    ELSE IF quantity > get_available_units(fifo, allocs)
    THEN [error |-> "InsufficientUnitsError", allocations |-> allocs]
    ELSE LET w == get_weighted_average_price(fifo, allocs, quantity)
         IN IF w.error # "none"
            THEN [error |-> w.error, allocations |-> allocs]
            ELSE [error |-> "none",
                  allocations |-> allocs \cup
                      {Allocation(id, owner_id, goal_id, quantity, w.avg_price, w.buy_date)}]

Replace(allocs, old, new) == (allocs \ {old}) \cup {new}

\* (mutation) a quantity change recomputes the buy price from the lots
update_allocation_Reprices(fifo, allocs, allocation_id, new_quantity, new_owner_id, new_goal_id) ==
    IF ~ \E a \in allocs : a.id = allocation_id
    THEN [error |-> "AllocationError", allocations |-> allocs]
    ELSE
    LET allocation == CHOOSE a \in allocs : a.id = allocation_id
        a1 == IF new_owner_id # None THEN [allocation EXCEPT !.owner_id = new_owner_id]
              ELSE allocation
        a2 == IF new_goal_id # None THEN [a1 EXCEPT !.goal_id = new_goal_id] ELSE a1
        current_allocated == get_allocated_units(allocs)
        available == get_total_holdings(fifo) - current_allocated + allocation.quantity
        a3 == IF new_quantity # None
              THEN [a2 EXCEPT !.quantity = new_quantity,
                              !.buy_price = get_weighted_average_price(
                                                fifo, allocs \ {allocation}, new_quantity).avg_price]
              ELSE a2
    IN IF new_owner_id # None /\ new_owner_id \notin Owners
       THEN [error |-> "InvalidOwnerError", allocations |-> allocs]
       ELSE IF new_goal_id # None /\ new_goal_id \notin Goals
       THEN [error |-> "InvalidGoalError", allocations |-> Replace(allocs, allocation, a1)]
       ELSE IF new_quantity # None /\ new_quantity <= 0
       THEN [error |-> "AllocationError", allocations |-> Replace(allocs, allocation, a2)]
       ELSE IF new_quantity # None /\ new_quantity > available
       THEN [error |-> "InsufficientUnitsError", allocations |-> Replace(allocs, allocation, a2)]
       ELSE [error |-> "none", allocations |-> Replace(allocs, allocation, a3)]

\* (mutation) the available units are clamped at zero before the own quantity is added
update_allocation_ClampsAvailable(fifo, allocs, allocation_id, new_quantity, new_owner_id, new_goal_id) ==
    IF ~ \E a \in allocs : a.id = allocation_id
    THEN [error |-> "AllocationError", allocations |-> allocs]
    ELSE
    LET allocation == CHOOSE a \in allocs : a.id = allocation_id
        a1 == IF new_owner_id # None THEN [allocation EXCEPT !.owner_id = new_owner_id]
              ELSE allocation
        a2 == IF new_goal_id # None THEN [a1 EXCEPT !.goal_id = new_goal_id] ELSE a1
        current_allocated == get_allocated_units(allocs)
        available == get_available_units(fifo, allocs) + allocation.quantity
        a3 == IF new_quantity # None THEN [a2 EXCEPT !.quantity = new_quantity] ELSE a2
    IN IF new_owner_id # None /\ new_owner_id \notin Owners
       THEN [error |-> "InvalidOwnerError", allocations |-> allocs]
       ELSE IF new_goal_id # None /\ new_goal_id \notin Goals
       THEN [error |-> "InvalidGoalError", allocations |-> Replace(allocs, allocation, a1)]
       ELSE IF new_quantity # None /\ new_quantity <= 0
       THEN [error |-> "AllocationError", allocations |-> Replace(allocs, allocation, a2)]
       ELSE IF new_quantity # None /\ new_quantity > available
       THEN [error |-> "InsufficientUnitsError", allocations |-> Replace(allocs, allocation, a2)]
       ELSE [error |-> "none", allocations |-> Replace(allocs, allocation, a3)]

\* Outcome of update_allocation.  The owner and the goal are assigned to
\* the loaded row before the later checks run, so a call that fails at a
\* later check leaves them assigned on the session's row.
update_allocation(fifo, allocs, allocation_id, new_quantity, new_owner_id, new_goal_id) ==
    IF ~ \E a \in allocs : a.id = allocation_id
    THEN [error |-> "AllocationError", allocations |-> allocs]
    ELSE
    LET allocation == CHOOSE a \in allocs : a.id = allocation_id
        a1 == IF new_owner_id # None THEN [allocation EXCEPT !.owner_id = new_owner_id]
              ELSE allocation
        a2 == IF new_goal_id # None THEN [a1 EXCEPT !.goal_id = new_goal_id] ELSE a1
        current_allocated == get_allocated_units(allocs)
        available == get_total_holdings(fifo) - current_allocated + allocation.quantity
        a3 == IF new_quantity # None THEN [a2 EXCEPT !.quantity = new_quantity] ELSE a2
    IN IF new_owner_id # None /\ new_owner_id \notin Owners
       THEN [error |-> "InvalidOwnerError", allocations |-> allocs]
       ELSE IF new_goal_id # None /\ new_goal_id \notin Goals
       THEN [error |-> "InvalidGoalError", allocations |-> Replace(allocs, allocation, a1)]
       ELSE IF new_quantity # None /\ new_quantity <= 0
       THEN [error |-> "AllocationError", allocations |-> Replace(allocs, allocation, a2)]
       ELSE IF new_quantity # None /\ new_quantity > available
       THEN [error |-> "InsufficientUnitsError", allocations |-> Replace(allocs, allocation, a2)]
       ELSE [error |-> "none", allocations |-> Replace(allocs, allocation, a3)]

\* (mutation) the delete removes every allocation of the pair
delete_allocation_RemovesAll(allocs, allocation_id) ==
    IF ~ \E a \in allocs : a.id = allocation_id
    THEN [error |-> "AllocationError", allocations |-> allocs]
    ELSE [error |-> "none", allocations |-> {}]

delete_allocation(allocs, allocation_id) ==
    IF ~ \E a \in allocs : a.id = allocation_id
    THEN [error |-> "AllocationError", allocations |-> allocs]
    ELSE [error |-> "none", allocations |-> {a \in allocs : a.id # allocation_id}]

\* (mutation) the allocations come newest buy_date first
get_allocations_NewestFirst(allocs) ==
    LET n == Cardinality(allocs) IN
    { order \in [1..n -> allocs] :
        /\ \A i, j \in 1..n : i # j => order[i] # order[j]
        /\ \A i, j \in 1..n : i < j => order[i].buy_date >= order[j].buy_date }

\* get_allocations: ORDER BY buy_date.  Rows of equal buy_date come in an
\* order SQL leaves open: every order sorted by buy_date is possible.
get_allocations(allocs) ==
    LET n == Cardinality(allocs) IN
    { order \in [1..n -> allocs] :
        /\ \A i, j \in 1..n : i # j => order[i] # order[j]
        /\ \A i, j \in 1..n : i < j => order[i].buy_date <= order[j].buy_date }

\* (mutation) the loop keeps the excess after reducing an allocation
RECURSIVE SyncLoop_KeepsExcess(_, _, _, _, _)
SyncLoop_KeepsExcess(order, excess, allocs, adjusted, deleted) ==
    IF order = <<>> \/ excess <= 0
    THEN [allocations |-> allocs, adjusted |-> adjusted, deleted |-> deleted]
    ELSE LET alloc == Head(order) IN
         IF alloc.quantity <= excess
         THEN SyncLoop_KeepsExcess(Tail(order), excess - alloc.quantity, allocs \ {alloc},
                                   adjusted, deleted + 1)
         ELSE SyncLoop_KeepsExcess(Tail(order), excess,
                                   Replace(allocs, alloc, [alloc EXCEPT !.quantity = @ - excess]),
                                   adjusted + 1, deleted)

\* The for loop of sync_with_holdings over the ordered allocations.
RECURSIVE SyncLoop(_, _, _, _, _)
SyncLoop(order, excess, allocs, adjusted, deleted) ==
    IF order = <<>> \/ excess <= 0
    THEN [allocations |-> allocs, adjusted |-> adjusted, deleted |-> deleted]
    ELSE LET alloc == Head(order) IN
         IF alloc.quantity <= excess
         THEN SyncLoop(Tail(order), excess - alloc.quantity, allocs \ {alloc},
                       adjusted, deleted + 1)
         ELSE SyncLoop(Tail(order), 0,
                       Replace(allocs, alloc, [alloc EXCEPT !.quantity = @ - excess]),
                       adjusted + 1, deleted)

sync_with_holdings(fifo, allocs, order) ==
    LET total_holdings == get_total_holdings(fifo)
        total_allocated == get_allocated_units(allocs)
    IN IF total_allocated <= total_holdings
       THEN [allocations |-> allocs, adjusted |-> 0, deleted |-> 0]
       ELSE SyncLoop(order, total_allocated - total_holdings, allocs, 0, 0)

----------------------------------------------------------------------------
(* SpecLedger: the allocation ledger of one pair, calls made one at a time *)

Call(op, allocation_id, owner_id, goal_id, quantity, error, adjusted, deleted) ==
    [op |-> op, allocation_id |-> allocation_id, owner_id |-> owner_id,
     goal_id |-> goal_id, quantity |-> quantity, error |-> error,
     adjusted |-> adjusted, deleted |-> deleted]

InitLedger ==
    /\ engine = GetFifoEngine({FirstTrade})
    /\ hist = <<>>
    /\ trades = {FirstTrade}
    /\ allocations = {}
    /\ next_id = 1
    /\ requests = NoRequests
    /\ corporate_actions = {}
    /\ last = NoCall

\* A tradebook import stores a trade of the pair that is not stored yet.
ImportTrade ==
    /\ \E t \in TradeInputs :
         /\ ~ \E r \in trades : r.trade_id = t.trade_id
         /\ trades' = trades \cup {t}
         /\ engine' = GetFifoEngine(trades \cup {t})
         /\ last' = Call("import_trade", None, None, None, None, "none", 0, 0)
    /\ UNCHANGED <<requests, corporate_actions, hist, allocations, next_id>>

CreateAllocation ==
    /\ next_id <= MaxAllocId
    /\ \E args \in CreateArgs :
         LET owner_id == args[1]
             goal_id == args[2]
             quantity == args[3]
             r == create_allocation(Fifo, allocations, next_id, owner_id, goal_id, quantity)
         IN /\ allocations' = r.allocations
            /\ next_id' = IF r.error = "none" THEN next_id + 1 ELSE next_id
            /\ last' = Call("create_allocation", IF r.error = "none" THEN next_id ELSE None,
                            owner_id, goal_id, quantity, r.error, 0, 0)
    /\ UNCHANGED <<requests, corporate_actions, engine, hist, trades>>

UpdateAllocation ==
    /\ \E allocation_id \in 1..MaxAllocId, args \in UpdateArgs :
         LET new_quantity == args[1]
             new_owner_id == args[2]
             new_goal_id == args[3]
             r == update_allocation(Fifo, allocations, allocation_id,
                                    new_quantity, new_owner_id, new_goal_id)
         IN /\ allocations' = r.allocations
            /\ last' = Call("update_allocation", allocation_id, new_owner_id, new_goal_id,
                            new_quantity, r.error, 0, 0)
    /\ UNCHANGED <<requests, corporate_actions, engine, hist, trades, next_id>>

DeleteAllocation ==
    /\ \E allocation_id \in 1..MaxAllocId :
         LET r == delete_allocation(allocations, allocation_id)
         IN /\ allocations' = r.allocations
            /\ last' = Call("delete_allocation", allocation_id, None, None, None, r.error, 0, 0)
    /\ UNCHANGED <<requests, corporate_actions, engine, hist, trades, next_id>>

SyncWithHoldings ==
    /\ \E order \in get_allocations(allocations) :
         LET r == sync_with_holdings(Fifo, allocations, order)
         IN /\ allocations' = r.allocations
            /\ last' = Call("sync_with_holdings", None, None, None, None, "none",
                            r.adjusted, r.deleted)
    /\ UNCHANGED <<requests, corporate_actions, engine, hist, trades, next_id>>

NextLedger ==
    \/ ImportTrade
    \/ CreateAllocation
    \/ UpdateAllocation
    \/ DeleteAllocation
    \/ SyncWithHoldings

SpecLedger == InitLedger /\ [][NextLedger]_vars

----------------------------------------------------------------------------
(* Properties of the allocation ledger (SpecLedger) *)

Holdings == get_available_quantity(engine)
Allocated == SumAllocated(allocations)
Lots == engine.buy_lots

\* The engine SpecLedger keeps is the one rebuilt from the stored trades.
EngineIsRebuilt == engine = GetFifoEngine(trades)

LedgerOps ==
    {"create_allocation", "update_allocation", "delete_allocation", "sync_with_holdings"}

\* C1: with calls made one at a time against a fixed transaction history,
\* every create_allocation, update_allocation, delete_allocation and
\* sync_with_holdings that starts with the sum of the pair's allocation
\* quantities at most the engine's available quantity ends in such a state,
\* whether it succeeds or fails; and right after sync_with_holdings the sum
\* is at most the available quantity whatever the state before.
C1_AllocatedAtMostHeld ==
    [][/\ (last'.op \in LedgerOps /\ Allocated <= Holdings)
            => (SumAllocated(allocations') <= get_available_quantity(engine'))
       /\ (last'.op = "sync_with_holdings")
            => (SumAllocated(allocations') <= get_available_quantity(engine'))]_vars

C1_Witness ==
    /\ last.op = "sync_with_holdings"
    /\ last.adjusted + last.deleted > 0
    /\ Allocated = Holdings
    /\ allocations # {}

\* C6: create_allocation with an existing owner and goal and a quantity
\* greater than get_available_units() fails with InsufficientUnitsError and
\* leaves the set of allocations unchanged (150 requested, 120 held: no
\* record is created).
C6_CreateBeyondAvailableFails ==
    [][(/\ last'.op = "create_allocation"
        /\ last'.owner_id \in Owners
        /\ last'.goal_id \in Goals
        /\ last'.quantity > Max(0, Holdings - Allocated))
          => /\ last'.error = "InsufficientUnitsError"
             /\ allocations' = allocations
             /\ next_id' = next_id]_vars

C6_Witness ==
    /\ last.op = "create_allocation"
    /\ last.quantity = 150
    /\ Holdings = 120
    /\ last.error = "InsufficientUnitsError"
    /\ last.owner_id \in Owners /\ last.goal_id \in Goals

\* C7: create_allocation validates owner, then goal, then quantity: a
\* nonexistent owner gives InvalidOwnerError whatever the goal and quantity;
\* an existing owner with a nonexistent goal gives InvalidGoalError whatever
\* the quantity; InsufficientUnitsError is raised only when both exist; and
\* no failing call creates an allocation.
C7_CreateValidationOrder ==
    [][(last'.op = "create_allocation")
          => /\ (last'.owner_id \notin Owners) => (last'.error = "InvalidOwnerError")
             /\ (last'.owner_id \in Owners /\ last'.goal_id \notin Goals)
                   => (last'.error = "InvalidGoalError")
             /\ (last'.error = "InsufficientUnitsError")
                   => (last'.owner_id \in Owners /\ last'.goal_id \in Goals)
             /\ (last'.error # "none")
                   => (allocations' = allocations /\ next_id' = next_id)]_vars

C7_Witness ==
    /\ last.op = "create_allocation"
    /\ last.owner_id \notin Owners
    /\ last.goal_id \notin Goals
    /\ last.quantity > Max(0, Holdings - Allocated)
    /\ last.error = "InvalidOwnerError"

\* Units lo+1 .. hi of a lot queue: their total price, and the queue
\* positions they occupy, counted lot by lot.
RECURSIVE WindowValue(_, _, _, _)
WindowValue(lots, start, lo, hi) ==
    IF lots = <<>> THEN 0
    ELSE LET end == start + Head(lots).remaining_qty
             overlap == Max(0, Min(end, hi) - Max(start, lo))
         IN overlap * Head(lots).price + WindowValue(Tail(lots), end, lo, hi)

\* Origin date of the lot that holds the unit at position pos (from 1).
RECURSIVE UnitDate(_, _)
UnitDate(lots, pos) ==
    IF lots = <<>> THEN None
    ELSE IF pos <= Head(lots).remaining_qty THEN Head(lots).trade_date
    ELSE UnitDate(Tail(lots), pos - Head(lots).remaining_qty)

Created == CHOOSE a \in allocations : a.id = last.allocation_id

CreateSucceeded == last'.op = "create_allocation" /\ last'.error = "none"

\* C8 as stated: after a successful create_allocation of q units with A
\* units allocated before, buy price times q equals the sum of the lot
\* prices of the units at FIFO positions A+1 .. A+q, and the buy date is the
\* date of the lot holding unit A+1.
C8_Original ==
    [][CreateSucceeded
          => LET q == last'.quantity
                 A == Allocated
             IN /\ Created'.buy_price * q = WindowValue(Lots, 0, A, A + q)
                /\ Created'.buy_date = UnitDate(Lots, A + 1)]_vars

\* C8 (amended): the buy price is that sum divided by q and rounded to the
\* four decimal places of the buy_price column, so buy price times q is
\* within q * 0.00005 of the sum; the first A units are skipped, exactly q
\* units are priced, and the buy date is the date of the lot holding unit
\* A+1.
C8_PriceIsRoundedWindowAverage ==
    [][CreateSucceeded
          => LET q == last'.quantity
                 A == Allocated
                 diff == Created'.buy_price * q - WindowValue(Lots, 0, A, A + q)
             IN /\ q > 0 /\ A + q <= Holdings
                /\ 2 * diff <= q /\ 2 * diff >= 0 - q
                /\ Created'.quantity = q
                /\ Created'.buy_date = UnitDate(Lots, A + 1)]_vars

C8_Witness ==
    /\ last.op = "create_allocation" /\ last.error = "none"
    /\ Allocated - Created.quantity > 0
    /\ Created.buy_date = 0
    /\ Created.buy_price > 50 * PriceScale
    /\ Created.buy_price * Created.quantity #
         WindowValue(Lots, 0, Allocated - Created.quantity, Allocated)

\* C9: update_allocation never changes an allocation's buy_price or
\* buy_date, whether the update of owner, goal and/or quantity succeeds or
\* fails.
C9_UpdateKeepsPriceAndDate ==
    [][(last'.op = "update_allocation")
          => /\ {a.id : a \in allocations'} = {a.id : a \in allocations}
             /\ \A a \in allocations : \A b \in allocations' :
                  (a.id = b.id) => (b.buy_price = a.buy_price /\ b.buy_date = a.buy_date)]_vars

C9_Witness ==
    /\ last.op = "update_allocation" /\ last.error = "none"
    /\ last.quantity = 120 /\ last.owner_id = 2 /\ last.goal_id = 2
    /\ \E a \in allocations :
         /\ a.id = last.allocation_id
         /\ a.quantity = 120 /\ a.owner_id = 2
         /\ a.buy_price = 50 * PriceScale

QuantityUpdate ==
    /\ last'.op = "update_allocation"
    /\ last'.owner_id = None /\ last'.goal_id = None
    /\ last'.quantity # None /\ last'.quantity > 0
    /\ \E a \in allocations : a.id = last'.allocation_id

Target == CHOOSE a \in allocations : a.id = last'.allocation_id

\* C10 as stated: update_allocation(id, new_quantity=q), q > 0, on an
\* existing allocation is accepted exactly when
\* q <= get_available_units() + the allocation's current quantity, and is
\* rejected with InsufficientUnitsError otherwise, in every ledger state.
C10_Original ==
    [][QuantityUpdate
          => /\ (last'.error = "none")
                  <=> (last'.quantity <= Max(0, Holdings - Allocated) + Target.quantity)
             /\ last'.error \in {"none", "InsufficientUnitsError"}]_vars

\* C10 (amended): the update is accepted exactly when
\* q <= holdings - total allocated + the allocation's current quantity, and
\* is rejected with InsufficientUnitsError otherwise; this bound equals
\* get_available_units() + the current quantity whenever the pair's total
\* allocated quantity is at most its holdings.
C10_UpdateQuantityBound ==
    [][QuantityUpdate
          => /\ (last'.error = "none")
                  <=> (last'.quantity <= Holdings - Allocated + Target.quantity)
             /\ last'.error \in {"none", "InsufficientUnitsError"}
             /\ (last'.error = "none")
                  => (\E b \in allocations' :
                        b.id = last'.allocation_id /\ b.quantity = last'.quantity)
             /\ (Allocated <= Holdings)
                  => ((last'.error = "none")
                        <=> (last'.quantity <= Max(0, Holdings - Allocated) + Target.quantity))]_vars

C10_Witness ==
    /\ last.op = "update_allocation"
    /\ last.error = "InsufficientUnitsError"
    /\ last.owner_id = None /\ last.goal_id = None
    /\ Allocated > Holdings
    /\ \E a \in allocations : a.id = last.allocation_id /\ last.quantity <= a.quantity

DeleteSucceeded == last'.op = "delete_allocation" /\ last'.error = "none"

SyncCalled == last'.op = "sync_with_holdings"

\* Allocations of the state before the call that the state after lacks.
SyncDeleted == {a \in allocations : ~ \E b \in allocations' : b.id = a.id}

\* Allocations of the state before the call kept with a smaller quantity.
SyncReduced ==
    {a \in allocations : \E b \in allocations' : b.id = a.id /\ b.quantity < a.quantity}

\* C12: sync_with_holdings is a no-op returning adjusted 0 and deleted 0
\* when the pair's total allocated quantity is at most its holdings; when
\* total allocated exceeds holdings, after the call total allocated equals
\* holdings, the quantity removed equals the excess, and deleted and
\* adjusted count the allocations deleted and the allocations reduced but
\* kept.
C12_SyncRemovesExactlyExcess ==
    [][SyncCalled
          => /\ (Allocated <= Holdings)
                  => /\ allocations' = allocations
                     /\ last'.adjusted = 0 /\ last'.deleted = 0
             /\ (Allocated > Holdings)
                  => /\ SumAllocated(allocations') = Holdings
                     /\ Allocated - SumAllocated(allocations') = Allocated - Holdings
                     /\ last'.deleted = Cardinality(SyncDeleted)
                     /\ last'.adjusted = Cardinality(SyncReduced)]_vars

C12_Witness ==
    /\ last.op = "sync_with_holdings"
    /\ last.adjusted = 1 /\ last.deleted = 1
    /\ Allocated = Holdings

\* C13: sync_with_holdings only removes quantity, oldest buy date first: it
\* creates no allocation, increases no quantity (also when holdings exceed
\* total allocated), reduces or deletes an allocation only if every
\* allocation with a strictly earlier buy date is deleted by the same call,
\* and leaves owner, goal, buy price and buy date of the survivors unchanged.
C13_SyncOnlyRemovesOldestFirst ==
    [][SyncCalled
          => /\ \A b \in allocations' : \E a \in allocations :
                  /\ a.id = b.id
                  /\ b.quantity <= a.quantity
                  /\ b = [a EXCEPT !.quantity = b.quantity]
             /\ \A a \in SyncDeleted \cup SyncReduced :
                  \A e \in allocations :
                     (e.buy_date < a.buy_date) => (e \in SyncDeleted)]_vars

C13_Witness ==
    /\ last.op = "sync_with_holdings"
    /\ last.adjusted + last.deleted > 0
    /\ \E a, b \in allocations : a.buy_date < b.buy_date /\ b.quantity = 30


----------------------------------------------------------------------------
(* SpecRace: two requests on the same pair, each in a session of its own. *)
(* create_allocation and update_allocation read the allocated and the     *)
(* available units, check the quantity, and then write and commit;        *)
(* another request's write can commit between the read and the write.    *)

RaceQuantities == {30, 60}

PendingCreates ==
    Cardinality({w \in Workers : requests[w].pc = "checked"
                                 /\ requests[w].op = "create_allocation"})

Checked(op, allocation_id, quantity, row) ==
    [pc |-> "checked", op |-> op, allocation_id |-> allocation_id,
     quantity |-> quantity, row |-> row, seen |-> allocations]

InitRace ==
    /\ engine = GetFifoEngine({FirstTrade})
    /\ hist = <<>>
    /\ trades = {FirstTrade}
    /\ allocations = {}
    /\ next_id = 1
    /\ requests = NoRequests
    /\ corporate_actions = {}
    /\ last = NoCall

\* create_allocation up to its checks: owner, goal, quantity against
\* get_available_units(), and the price of the units it would take.
CreateCheck(w) ==
    /\ requests[w] = Idle
    /\ next_id + PendingCreates <= MaxAllocId
    /\ \E quantity \in RaceQuantities :
         LET r == create_allocation(Fifo, allocations, 0, 1, 1, quantity)
         IN IF r.error = "none"
            THEN /\ requests' = [requests EXCEPT ![w] =
                       Checked("create_allocation", None, quantity,
                               CHOOSE a \in r.allocations : a.id = 0)]
                 /\ UNCHANGED last
            ELSE /\ last' = Call("create_allocation", None, 1, 1, quantity, r.error, 0, 0)
                 /\ UNCHANGED requests
    /\ UNCHANGED <<engine, hist, trades, allocations, next_id, corporate_actions>>

\* db.session.add(allocation); db.session.commit()
CreateWrite(w) ==
    /\ requests[w].pc = "checked"
    /\ requests[w].op = "create_allocation"
    /\ allocations' = allocations \cup {[requests[w].row EXCEPT !.id = next_id]}
    /\ next_id' = next_id + 1
    /\ requests' = [requests EXCEPT ![w] = Idle]
    /\ last' = Call("create_allocation", next_id, 1, 1, requests[w].quantity, "none", 0, 0)
    /\ UNCHANGED <<engine, hist, trades, corporate_actions>>

\* (mutation) the quantity is not checked against the available units
UpdateCheck_Unchecked(w) ==
    /\ requests[w] = Idle
    /\ \E allocation_id \in 1..MaxAllocId, new_quantity \in RaceQuantities :
         /\ \E a \in allocations : a.id = allocation_id
         /\ requests' = [requests EXCEPT ![w] =
                Checked("update_allocation", allocation_id, new_quantity,
                        [(CHOOSE a \in allocations : a.id = allocation_id)
                            EXCEPT !.quantity = new_quantity])]
         /\ UNCHANGED last
    /\ UNCHANGED <<engine, hist, trades, allocations, next_id, corporate_actions>>

\* update_allocation(new_quantity) up to its check of the quantity against
\* holdings - allocated + the allocation's own quantity.
UpdateCheck(w) ==
    /\ requests[w] = Idle
    /\ \E allocation_id \in 1..MaxAllocId, new_quantity \in RaceQuantities :
         LET r == update_allocation(Fifo, allocations, allocation_id,
                                    new_quantity, None, None)
         IN IF r.error = "none"
            THEN /\ requests' = [requests EXCEPT ![w] =
                       Checked("update_allocation", allocation_id, new_quantity,
                               CHOOSE a \in r.allocations : a.id = allocation_id)]
                 /\ UNCHANGED last
            ELSE /\ last' = Call("update_allocation", allocation_id, None, None,
                                 new_quantity, r.error, 0, 0)
                 /\ UNCHANGED requests
    /\ UNCHANGED <<engine, hist, trades, allocations, next_id, corporate_actions>>

\* allocation.quantity = new_quantity; db.session.commit(): the UPDATE sets
\* the quantity of the row with the allocation's id.
UpdateWrite(w) ==
    /\ requests[w].pc = "checked"
    /\ requests[w].op = "update_allocation"
    /\ allocations' = {IF a.id = requests[w].allocation_id
                       THEN [a EXCEPT !.quantity = requests[w].quantity]
                       ELSE a : a \in allocations}
    /\ requests' = [requests EXCEPT ![w] = Idle]
    /\ last' = Call("update_allocation", requests[w].allocation_id, None, None,
                    requests[w].quantity, "none", 0, 0)
    /\ UNCHANGED <<engine, hist, trades, next_id, corporate_actions>>

NextRace ==
    \E w \in Workers :
        \/ CreateCheck(w)
        \/ CreateWrite(w)
        \/ UpdateCheck(w)
        \/ UpdateWrite(w)

SpecRace == InitRace /\ [][NextRace]_vars

\* Worker w's request commits its write in this step.
Writes(w) == requests[w].pc = "checked" /\ requests'[w].pc = "idle"

\* No other request's write was committed between w's read and w's write.
Serialized(w) == requests[w].seen = allocations

\* C14: the ledger's check-then-write is not safe under interleaving.  A
\* write of create_allocation or update_allocation that no other write
\* came between its read and itself keeps the sum of the allocation
\* quantities at most the holdings; so the sum can come to exceed the
\* holdings only by a write whose request read the available units before
\* another request committed (the witness: both requests succeed and the
\* sum exceeds the holdings).
C14_OverAllocationOnlyByInterleaving ==
    [][/\ \A w \in Workers :
            (Writes(w) /\ Serialized(w) /\ Allocated <= Holdings)
               => (SumAllocated(allocations') <= get_available_quantity(engine'))
       /\ (Allocated <= Holdings
             /\ SumAllocated(allocations') > get_available_quantity(engine'))
            => (\E w \in Workers : Writes(w) /\ ~ Serialized(w))]_vars

C14_Witness ==
    /\ Allocated > Holdings
    /\ \A w \in Workers : requests[w] = Idle
    /\ last.error = "none"
    /\ Cardinality(allocations) = 2

\* C15 as stated: when recorded sales shrink the pair's holdings below its
\* total allocated quantity, the allocations are reduced or deleted without
\* an explicit sync request: right after a tradebook import has stored a
\* sale, total allocated is at most the holdings.
C15_Original ==
    [][(last'.op = "import_trade" /\ Allocated <= Holdings)
          => (SumAllocated(allocations') <= get_available_quantity(engine'))]_vars

----------------------------------------------------------------------------
(* SpecCorporate: the CorporateAction rows (structural-change records),   *)
(* written by save_corporate_action, by run_reconciliation and by the     *)
(* apply route.  Calls are made one at a time.                            *)

\* Stocks that exist; a Tax P&L symbol no Stock row has is looked up as None.
StockIds == {1}

\* <<action_type, ratio_from, ratio_to>>
ActionKeys == { <<"split", 1, 2>>, <<"split", 1, 10>>, <<"bonus", 1, 1>> }

\* <<detected_date, old_price, new_price>> of a proposal.  The prices are
\* floats of Numeric(15,4) trade prices, stored back into Numeric(15,4)
\* columns: the same number of 0.0001 units.
Anchors == { <<None, None, None>>, <<30, 100 * PriceScale, 100500>> }

Proposals ==
    { [stock_id |-> st, action_type |-> k[1], ratio_from |-> k[2], ratio_to |-> k[3],
       detected_date |-> a[1], old_price |-> a[2], new_price |-> a[3]]
        : st \in StockIds, k \in ActionKeys, a \in Anchors }

\* The corporate_actions lists a reconciliation run can detect: up to two
\* actions, possibly twice the same, possibly of a symbol without a Stock.
ReconActions ==
    { [stock_id |-> 1, action_type |-> "split", ratio_from |-> 1, ratio_to |-> 2,
       old_price |-> 100 * PriceScale, new_price |-> 50 * PriceScale],
      [stock_id |-> 1, action_type |-> "bonus", ratio_from |-> 1, ratio_to |-> 1,
       old_price |-> 100 * PriceScale, new_price |-> 50 * PriceScale],
      [stock_id |-> None, action_type |-> "split", ratio_from |-> 1, ratio_to |-> 10,
       old_price |-> 100 * PriceScale, new_price |-> 10 * PriceScale] }

ReconResults ==
    {<<>>} \cup {<<a>> : a \in ReconActions} \cup {<<a, b>> : a, b \in ReconActions}

ActionIds == 1..Cardinality(ActionKeys)

CorporateAction(id, stock_id, action_type, record_date, ratio_from, ratio_to, old_price, new_price) ==
    [id |-> id, stock_id |-> stock_id, action_type |-> action_type,
     record_date |-> record_date, ratio_from |-> ratio_from, ratio_to |-> ratio_to,
     old_price |-> old_price, new_price |-> new_price,
     detected_automatically |-> TRUE, applied |-> FALSE]

\* filter_by(stock_id, action_type, ratio_from, ratio_to)
Existing(rows, stock_id, action_type, ratio_from, ratio_to) ==
    { ca \in rows : /\ ca.stock_id = stock_id
                    /\ ca.action_type = action_type
                    /\ ca.ratio_from = ratio_from
                    /\ ca.ratio_to = ratio_to }

\* (mutation) the lookup also matches on the record date
save_corporate_action_MatchesDate(rows, action_data) ==
    LET existing == { ca \in Existing(rows, action_data.stock_id, action_data.action_type,
                                      action_data.ratio_from, action_data.ratio_to) :
                        ca.record_date = action_data.detected_date }
    IN IF existing # {}
       THEN [rows |-> rows, returned |-> CHOOSE ca \in existing : TRUE, created |-> FALSE]
       ELSE LET ca == CorporateAction(Cardinality(rows) + 1, action_data.stock_id,
                                      action_data.action_type, action_data.detected_date,
                                      action_data.ratio_from, action_data.ratio_to,
                                      action_data.old_price, action_data.new_price)
            IN [rows |-> rows \cup {ca}, returned |-> ca, created |-> TRUE]

\* save_corporate_action: the first row of the key if there is one, else a
\* new unapplied row.  Rows are never deleted, so the next id is the count
\* of rows plus one.
save_corporate_action(rows, action_data) ==
    LET existing == Existing(rows, action_data.stock_id, action_data.action_type,
                             action_data.ratio_from, action_data.ratio_to)
    IN IF existing # {}
       THEN [rows |-> rows,
             returned |-> CHOOSE ca \in existing : \A o \in existing : ca.id <= o.id,
             created |-> FALSE]
       ELSE LET ca == CorporateAction(Cardinality(rows) + 1, action_data.stock_id,
                                      action_data.action_type, action_data.detected_date,
                                      action_data.ratio_from, action_data.ratio_to,
                                      action_data.old_price, action_data.new_price)
            IN [rows |-> rows \cup {ca}, returned |-> ca, created |-> TRUE]

\* The loop of run_reconciliation over the detected actions.  The lookup
\* of an existing row flushes the session first, so it sees the rows added
\* earlier in the same loop.
RECURSIVE ReconLoop(_, _)
ReconLoop(actions, rows) ==
    IF actions = <<>> THEN rows
    ELSE LET action == Head(actions) IN
         IF action.stock_id \notin StockIds
         THEN ReconLoop(Tail(actions), rows)
         ELSE IF Existing(rows, action.stock_id, action.action_type,
                          action.ratio_from, action.ratio_to) # {}
         THEN ReconLoop(Tail(actions), rows)
         ELSE ReconLoop(Tail(actions),
                        rows \cup {CorporateAction(Cardinality(rows) + 1, action.stock_id,
                                                   action.action_type, None,
                                                   action.ratio_from, action.ratio_to,
                                                   action.old_price, action.new_price)})

\* (mutation) applying flips the flag and rejects nothing
apply_corporate_action_Toggles(rows, action_id) ==
    IF ~ \E ca \in rows : ca.id = action_id
    THEN [error |-> "404", rows |-> rows]
    ELSE LET action == CHOOSE ca \in rows : ca.id = action_id
         IN [error |-> "none",
             rows |-> (rows \ {action}) \cup {[action EXCEPT !.applied = ~ @]}]

\* The apply route: 404 for an unknown id, 400 for an applied record, else
\* applied = True.
apply_corporate_action(rows, action_id) ==
    IF ~ \E ca \in rows : ca.id = action_id
    THEN [error |-> "404", rows |-> rows]
    ELSE LET action == CHOOSE ca \in rows : ca.id = action_id
         IN IF action.applied
            THEN [error |-> "Corporate action already applied", rows |-> rows]
            ELSE [error |-> "none",
                  rows |-> (rows \ {action}) \cup {[action EXCEPT !.applied = TRUE]}]

InitCorporate ==
    /\ engine = NewEngine
    /\ hist = <<>>
    /\ trades = {}
    /\ allocations = {}
    /\ next_id = 1
    /\ requests = NoRequests
    /\ corporate_actions = {}
    /\ last = NoCall

SaveCorporateAction ==
    /\ \E action_data \in Proposals :
         LET r == save_corporate_action(corporate_actions, action_data)
         IN /\ corporate_actions' = r.rows
            /\ last' = [op |-> "save_corporate_action", action_data |-> action_data,
                        returned |-> r.returned, created |-> r.created, error |-> "none"]
    /\ UNCHANGED <<engine, hist, trades, allocations, next_id, requests>>

RunReconciliation ==
    /\ \E actions \in ReconResults :
         /\ corporate_actions' = ReconLoop(actions, corporate_actions)
         /\ last' = [op |-> "run_reconciliation", actions |-> actions, error |-> "none"]
    /\ UNCHANGED <<engine, hist, trades, allocations, next_id, requests>>

ApplyCorporateAction ==
    /\ \E action_id \in ActionIds :
         LET r == apply_corporate_action(corporate_actions, action_id)
         IN /\ corporate_actions' = r.rows
            /\ last' = [op |-> "apply_corporate_action", action_id |-> action_id,
                        error |-> r.error]
    /\ UNCHANGED <<engine, hist, trades, allocations, next_id, requests>>

NextCorporate ==
    \/ SaveCorporateAction
    \/ RunReconciliation
    \/ ApplyCorporateAction

SpecCorporate == InitCorporate /\ [][NextCorporate]_vars

----------------------------------------------------------------------------
(* Properties of the structural-change records (SpecCorporate) *)

\* C16: a record's applied flag makes at most one transition, unapplied to
\* applied: a detected record is created unapplied; applying an unapplied
\* record sets applied; applying an applied record is rejected with an
\* error and leaves the record unchanged; no apply, save or reconciliation
\* sets an applied record back to unapplied (or changes or removes it).
C16_AppliedOnlyOnce ==
    [][/\ \A ca \in corporate_actions :
            \E cb \in corporate_actions' :
               /\ cb.id = ca.id
               /\ ca.applied => cb = ca
               /\ (cb # ca) => /\ last'.op = "apply_corporate_action"
                               /\ last'.action_id = ca.id
                               /\ last'.error = "none"
                               /\ cb = [ca EXCEPT !.applied = TRUE]
       /\ \A cb \in corporate_actions' :
            (~ \E ca \in corporate_actions : ca.id = cb.id)
               => (~ cb.applied /\ cb.detected_automatically
                     /\ last'.op \in {"save_corporate_action", "run_reconciliation"})
       /\ (last'.op = "apply_corporate_action")
            => \A ca \in corporate_actions :
                 (ca.id = last'.action_id)
                    => /\ ca.applied
                          => /\ last'.error = "Corporate action already applied"
                             /\ corporate_actions' = corporate_actions
                       /\ (~ ca.applied)
                          => /\ last'.error = "none"
                             /\ [ca EXCEPT !.applied = TRUE] \in corporate_actions']_vars

C16_Witness ==
    /\ last.op = "apply_corporate_action"
    /\ last.error = "Corporate action already applied"
    /\ \E ca \in corporate_actions : ca.id = last.action_id /\ ca.applied

KeyOf(ca) == <<ca.stock_id, ca.action_type, ca.ratio_from, ca.ratio_to>>

\* C17: saving a proposal is idempotent per (security, type, ratio_from,
\* ratio_to): after any sequence of save_corporate_action calls,
\* reconciliation runs and applies there is at most one record per key, and
\* saving a proposal whose key exists returns the existing record unchanged
\* (applied flag, record date and price anchors included) and creates none.
C17_SaveIsIdempotentPerKey ==
    /\ [](\A a, b \in corporate_actions : (KeyOf(a) = KeyOf(b)) => (a = b))
    /\ [][(last'.op = "save_corporate_action")
            => \A ca \in corporate_actions :
                 (KeyOf(ca) = <<last'.action_data.stock_id, last'.action_data.action_type,
                                last'.action_data.ratio_from, last'.action_data.ratio_to>>)
                    => /\ corporate_actions' = corporate_actions
                       /\ last'.returned = ca
                       /\ ~ last'.created]_vars

C17_Witness ==
    /\ last.op = "save_corporate_action"
    /\ ~ last.created
    /\ last.returned \in corporate_actions
    /\ last.returned.applied
    /\ last.returned.record_date # last.action_data.detected_date
    /\ last.returned.old_price # last.action_data.old_price

----------------------------------------------------------------------------
(* Split detection (CorporateActionService) over the Trade rows of a pair *)

Abs(x) == IF x < 0 THEN 0 - x ELSE x

COMMON_SPLIT_RATIOS == <<2, 3, 4, 5, 10, 20, 25, 50, 100>>

\* <<split_ratio, min_ratio, max_ratio>>, the bounds in tenths, in the
\* order of the dict.
SPLIT_DETECTION_THRESHOLDS ==
    << <<2, 17, 24>>, <<3, 25, 36>>, <<4, 34, 48>>, <<5, 42, 60>>, <<10, 85, 120>>,
       <<20, 170, 240>>, <<25, 210, 300>>, <<50, 420, 600>>, <<100, 850, 1200>> >>

NoProposal == [found |-> FALSE]

\* ORDER BY trade_date, trade_datetime.  Rows equal on both keys come in an
\* order SQL leaves open; here by trade_id.
DateBefore(a, b) ==
    IF a.trade_date # b.trade_date THEN a.trade_date < b.trade_date
    ELSE IF a.trade_datetime # b.trade_datetime THEN a.trade_datetime < b.trade_datetime
    ELSE a.trade_id < b.trade_id

\* (mutation) the rows come in the order of their trade_id
RECURSIVE OrderByDate_ById(_)
OrderByDate_ById(rows) ==
    IF rows = {} THEN <<>>
    ELSE LET first == CHOOSE r \in rows : \A o \in rows : r.trade_id <= o.trade_id
         IN <<first>> \o OrderByDate_ById(rows \ {first})

RECURSIVE OrderByDate(_)
OrderByDate(rows) ==
    IF rows = {} THEN <<>>
    ELSE LET first == CHOOSE r \in rows : \A o \in rows \ {r} : DateBefore(r, o)
         IN <<first>> \o OrderByDate(rows \ {first})

\* The inner for loop of detect_split_from_prices: the first entry of the
\* table, from index k on, with min_ratio <= prev/curr <= max_ratio; 0 if
\* none.  prev/curr is compared as 10 * prev against the bound times curr.
RECURSIVE FirstBand(_, _, _)
FirstBand(prev_price, curr_price, k) ==
    IF k > Len(SPLIT_DETECTION_THRESHOLDS) THEN 0
    ELSE LET entry == SPLIT_DETECTION_THRESHOLDS[k]
         IN IF /\ entry[2] * curr_price <= 10 * prev_price
               /\ 10 * prev_price <= entry[3] * curr_price
            THEN entry[1]
            ELSE FirstBand(prev_price, curr_price, k + 1)

\* 'high' if abs(price_ratio - split_ratio) < 0.5 else 'medium'
Confidence(prev_price, curr_price, split_ratio) ==
    IF 2 * Abs(prev_price - split_ratio * curr_price) < curr_price
    THEN "high" ELSE "medium"

\* The for loop of detect_split_from_prices from index i (1-based) on.
RECURSIVE PriceScan(_, _)
PriceScan(buy_trades, i) ==
    IF i > Len(buy_trades) THEN NoProposal
    ELSE LET prev_trade == buy_trades[i - 1]
             curr_trade == buy_trades[i]
             split_ratio == FirstBand(prev_trade.price, curr_trade.price, 1)
         IN IF curr_trade.price <= 0 THEN PriceScan(buy_trades, i + 1)
            ELSE IF split_ratio # 0
            THEN [found |-> TRUE, action_type |-> "split",
                  ratio_from |-> 1, ratio_to |-> split_ratio,
                  old_price |-> prev_trade.price, new_price |-> curr_trade.price,
                  detected_date |-> curr_trade.trade_date,
                  pre_split_trade_id |-> prev_trade.trade_id,
                  post_split_trade_id |-> curr_trade.trade_id,
                  confidence |-> Confidence(prev_trade.price, curr_trade.price, split_ratio)]
            ELSE PriceScan(buy_trades, i + 1)

detect_split_from_prices(rows) ==
    LET buy_trades == OrderByDate({t \in rows : t.trade_type = "buy"})
    IN IF Len(buy_trades) < 2 THEN NoProposal ELSE PriceScan(buy_trades, 2)

RECURSIVE SumTradeQuantity(_)
SumTradeQuantity(rows) ==
    IF rows = {} THEN 0
    ELSE LET t == CHOOSE r \in rows : TRUE
         IN t.quantity + SumTradeQuantity(rows \ {t})

\* 0.8 * split_ratio <= ratio <= 1.2 * split_ratio, in floats.  For the
\* table ratio 3 the products are 2.4000000000000004 and
\* 3.5999999999999996, which leave out the ratios 2.4 and 3.6 themselves;
\* for every other table ratio the products are the floats nearest to
\* 0.8 r and 1.2 r, which a ratio of exactly that value meets.
NearRatio(prev_price, curr_price, split_ratio) ==
    IF split_ratio = 3
    THEN /\ 8 * split_ratio * curr_price < 10 * prev_price
         /\ 10 * prev_price < 12 * split_ratio * curr_price
    ELSE /\ 8 * split_ratio * curr_price <= 10 * prev_price
         /\ 10 * prev_price <= 12 * split_ratio * curr_price

\* The anchor loop of detect_split_from_sell_mismatch: the first adjacent
\* pair of buys with 0.8 * split_ratio <= prev/curr <= 1.2 * split_ratio.
RECURSIVE AnchorScan(_, _, _)
AnchorScan(buy_trades, i, split_ratio) ==
    IF i > Len(buy_trades)
    THEN [split_date |-> None, old_price |-> None, new_price |-> None]
    ELSE LET prev == buy_trades[i - 1]
             curr == buy_trades[i]
         IN IF curr.price > 0 /\ NearRatio(prev.price, curr.price, split_ratio)
            THEN [split_date |-> curr.trade_date, old_price |-> prev.price,
                  new_price |-> curr.price]
            ELSE AnchorScan(buy_trades, i + 1, split_ratio)

\* (mutation) the tolerance is 10% of the bought quantity times the ratio
RECURSIVE RatioScan_ToleranceOfExpected(_, _, _, _)
RatioScan_ToleranceOfExpected(rows, total_buy, total_sell, k) ==
    IF k > Len(COMMON_SPLIT_RATIOS) THEN NoProposal
    ELSE LET split_ratio == COMMON_SPLIT_RATIOS[k]
             expected_holdings_after_split == total_buy * split_ratio
         IN IF 10 * Abs(expected_holdings_after_split - total_sell)
                  <= expected_holdings_after_split
            THEN LET anchor == AnchorScan(
                                  OrderByDate({t \in rows : t.trade_type = "buy"}),
                                  2, split_ratio)
                 IN [found |-> TRUE, action_type |-> "split",
                     ratio_from |-> 1, ratio_to |-> split_ratio,
                     old_price |-> anchor.old_price, new_price |-> anchor.new_price,
                     detected_date |-> anchor.split_date,
                     total_buy |-> total_buy, total_sell |-> total_sell,
                     confidence |-> "medium"]
            ELSE RatioScan_ToleranceOfExpected(rows, total_buy, total_sell, k + 1)

\* The loop of detect_split_from_sell_mismatch over COMMON_SPLIT_RATIOS:
\* abs(total_buy * split_ratio - total_sell) <= total_sell * 0.1.
RECURSIVE RatioScan(_, _, _, _)
RatioScan(rows, total_buy, total_sell, k) ==
    IF k > Len(COMMON_SPLIT_RATIOS) THEN NoProposal
    ELSE LET split_ratio == COMMON_SPLIT_RATIOS[k]
             expected_holdings_after_split == total_buy * split_ratio
         IN IF 10 * Abs(expected_holdings_after_split - total_sell) <= total_sell
            THEN LET anchor == AnchorScan(
                                  OrderByDate({t \in rows : t.trade_type = "buy"}),
                                  2, split_ratio)
                 IN [found |-> TRUE, action_type |-> "split",
                     ratio_from |-> 1, ratio_to |-> split_ratio,
                     old_price |-> anchor.old_price, new_price |-> anchor.new_price,
                     detected_date |-> anchor.split_date,
                     total_buy |-> total_buy, total_sell |-> total_sell,
                     confidence |-> "medium"]
            ELSE RatioScan(rows, total_buy, total_sell, k + 1)

detect_split_from_sell_mismatch(rows) ==
    LET total_buy == SumTradeQuantity({t \in rows : t.trade_type = "buy"})
        total_sell == SumTradeQuantity({t \in rows : t.trade_type = "sell"})
    IN IF total_sell <= total_buy THEN NoProposal
       ELSE RatioScan(rows, total_buy, total_sell, 1)

----------------------------------------------------------------------------
(* SpecDetect: the two detections applied to the Trade rows of a pair.    *)
(* The rows are the input: up to three buys of 10 units on days 10, 20,   *)
(* 30 and at most one sale.                                               *)

\* Buy prices, in PriceScale units: 100, 70, 50, 48, 41, 40, 22, 20, 10.05, 1.
DetectPrices ==
    { 100 * PriceScale, 70 * PriceScale, 50 * PriceScale, 48 * PriceScale,
      41 * PriceScale, 40 * PriceScale, 22 * PriceScale, 20 * PriceScale,
      100500, 1 * PriceScale }

PriceLists ==
    {<<>>} \cup {<<a>> : a \in DetectPrices}
           \cup {<<a, b>> : a, b \in DetectPrices}
           \cup {<<a, b, c>> : a, b, c \in DetectPrices}

\* Quantity of the pair's sale; 0: no sale.
SoldQuantities == {0, 9, 22, 23, 44, 100, 330}

\* The buys of a price list; the broker's trade ids do not follow the dates.
BuyRows(prices) ==
    { [trade_type |-> "buy", trade_date |-> 10 * i, trade_datetime |-> NULL,
       quantity |-> 10, price |-> prices[i], trade_id |-> 10 - i]
        : i \in 1..Len(prices) }

SellRows(quantity) ==
    IF quantity = 0 THEN {}
    ELSE { [trade_type |-> "sell", trade_date |-> 400, trade_datetime |-> NULL,
            quantity |-> quantity, price |-> 60 * PriceScale, trade_id |-> 10] }

InitDetect ==
    /\ engine = NewEngine
    /\ hist = <<>>
    /\ \E prices \in PriceLists, sold \in SoldQuantities :
         trades = BuyRows(prices) \cup SellRows(sold)
    /\ allocations = {}
    /\ next_id = 1
    /\ requests = NoRequests
    /\ corporate_actions = {}
    /\ last = NoCall

DetectSplitFromPrices ==
    /\ last' = [op |-> "detect_split_from_prices",
                result |-> detect_split_from_prices(trades)]
    /\ UNCHANGED <<engine, hist, trades, allocations, next_id, requests, corporate_actions>>

DetectSplitFromSellMismatch ==
    /\ last' = [op |-> "detect_split_from_sell_mismatch",
                result |-> detect_split_from_sell_mismatch(trades)]
    /\ UNCHANGED <<engine, hist, trades, allocations, next_id, requests, corporate_actions>>

NextDetect == DetectSplitFromPrices \/ DetectSplitFromSellMismatch

SpecDetect == InitDetect /\ [][NextDetect]_vars

----------------------------------------------------------------------------
(* Properties of the detections (SpecDetect) *)

\* The pair's buys in date order (their dates are distinct here).
Buys == {t \in trades : t.trade_type = "buy"}
BuyAt(i) == CHOOSE t \in Buys : Cardinality({o \in Buys : o.trade_date < t.trade_date}) = i - 1

\* prev/curr lies in the band of table entry k.
InBand(prev, curr, k) ==
    /\ SPLIT_DETECTION_THRESHOLDS[k][2] * curr.price <= 10 * prev.price
    /\ 10 * prev.price <= SPLIT_DETECTION_THRESHOLDS[k][3] * curr.price

Bands == 1..Len(SPLIT_DETECTION_THRESHOLDS)

\* Adjacent pair (i-1, i) falls in some band.
PairMatches(i) == \E k \in Bands : InBand(BuyAt(i - 1), BuyAt(i), k)

FirstMatch == CHOOSE i \in 2..Cardinality(Buys) :
                 PairMatches(i) /\ \A j \in 2..(i - 1) : ~ PairMatches(j)

FirstBandIndex(prev, curr) ==
    CHOOSE k \in Bands : InBand(prev, curr, k) /\ \A j \in 1..(k - 1) : ~ InBand(prev, curr, j)

\* What detect_split_from_prices is to return, but for the confidence.
PriceDetectionAsSpecified(result) ==
    IF Cardinality(Buys) < 2 \/ ~ \E i \in 2..Cardinality(Buys) : PairMatches(i)
    THEN ~ result.found
    ELSE LET prev == BuyAt(FirstMatch - 1)
             curr == BuyAt(FirstMatch)
             r == SPLIT_DETECTION_THRESHOLDS[FirstBandIndex(prev, curr)][1]
         IN /\ result.found
            /\ result.ratio_from = 1 /\ result.ratio_to = r
            /\ result.old_price = prev.price /\ result.new_price = curr.price
            /\ result.detected_date = curr.trade_date

\* 2 * |prev/curr - r|, times curr: compared with curr for a distance of 0.5.
TwiceDistance(result) ==
    2 * Abs(result.old_price - result.ratio_to * result.new_price)

ExamplePrices == trades = BuyRows(<<100 * PriceScale, 100500>>)

TotalBought == SumTradeQuantity(Buys)
TotalSold == SumTradeQuantity({t \in trades : t.trade_type = "sell"})

\* Table ratio r with |TotalBought * r - TotalSold| <= 10% of TotalSold.
RatioFits(k) ==
    10 * Abs(TotalBought * COMMON_SPLIT_RATIOS[k] - TotalSold) <= TotalSold

Ratios == 1..Len(COMMON_SPLIT_RATIOS)

\* Adjacent pair (i-1, i) has a price ratio within 20% of r, the ends
\* 0.8 r and 1.2 r included.
PairNear(i, r) ==
    /\ 8 * r * BuyAt(i).price <= 10 * BuyAt(i - 1).price
    /\ 10 * BuyAt(i - 1).price <= 12 * r * BuyAt(i).price

\* The same, but for r = 3 without the two ends 2.4 and 3.6.
PairNearButEndsOfThree(i, r) ==
    /\ PairNear(i, r)
    /\ (r = 3) => /\ 8 * r * BuyAt(i).price # 10 * BuyAt(i - 1).price
                  /\ 10 * BuyAt(i - 1).price # 12 * r * BuyAt(i).price

\* What detect_split_from_sell_mismatch is to return, the anchoring pairs
\* being those that satisfy Near.
SellMismatchAsSpecified(result, Near(_, _)) ==
    /\ (TotalSold <= TotalBought) => ~ result.found
    /\ (TotalSold > TotalBought /\ ~ \E k \in Ratios : RatioFits(k))
          => ~ result.found
    /\ (TotalSold > TotalBought /\ \E k \in Ratios : RatioFits(k))
          => LET k == CHOOSE c \in Ratios :
                         RatioFits(c) /\ \A j \in 1..(c - 1) : ~ RatioFits(j)
                 r == COMMON_SPLIT_RATIOS[k]
                 near == {i \in 2..Cardinality(Buys) : Near(i, r)}
             IN /\ result.found
                /\ result.ratio_from = 1 /\ result.ratio_to = r
                /\ result.confidence = "medium"
                /\ (near = {})
                      => /\ result.detected_date = None
                         /\ result.old_price = None
                         /\ result.new_price = None
                /\ (near # {})
                      => LET i == CHOOSE c \in near : \A j \in near : c <= j
                         IN /\ result.detected_date = BuyAt(i).trade_date
                            /\ result.old_price = BuyAt(i - 1).price
                            /\ result.new_price = BuyAt(i).price

----------------------------------------------------------------------------
(* SpecAdjust: adjust_quantity_for_splits applied to a purchase.          *)
(* Decimal prices are held as the integer number of 1/DecimalUnit units.  *)
(* The code divides Decimals at 28 significant digits; here a quotient is *)
(* kept to the digits of DecimalUnit.  For the inputs below every         *)
(* quotient that terminates fits in those digits, so a quotient is        *)
(* rounded here exactly when it is rounded in the code.                   *)

DecimalUnit == 1000000

\* Decimal division n / d, rounded half to even at the last kept digit.
DivHalfEven(n, d) ==
    LET q == n \div d
        r == n % d
    IN IF 2 * r < d THEN q
       ELSE IF 2 * r > d THEN q + 1
       ELSE IF q % 2 = 0 THEN q ELSE q + 1

\* Splits passed to the function: 1:2, 1:3 and 2:3 recorded on day 30,
\* 1:10 recorded on day 50, and 1:2 without a record date.  For each,
\* ratio_to / ratio_from is a float with a short exact decimal string.
SplitInputs ==
    { [record_date |-> 30, ratio_from |-> 1, ratio_to |-> 2],
      [record_date |-> 30, ratio_from |-> 1, ratio_to |-> 3],
      [record_date |-> 30, ratio_from |-> 2, ratio_to |-> 3],
      [record_date |-> 50, ratio_from |-> 1, ratio_to |-> 10],
      [record_date |-> None, ratio_from |-> 1, ratio_to |-> 2] }

SplitLists ==
    {<<>>} \cup {<<a>> : a \in SplitInputs} \cup {<<a, b>> : a, b \in SplitInputs}

OriginalQuantities == {1, 3, 10}
OriginalPrices == {1 * DecimalUnit, 10050000, 100 * DecimalUnit}
PurchaseDates == {10, 30, 50}

\* The for loop of adjust_quantity_for_splits: int(adjusted_qty *
\* split_ratio) truncates; the price is divided by Decimal(str(split_ratio)).
RECURSIVE AdjustLoop(_, _, _, _)
AdjustLoop(splits, adjusted_qty, adjusted_price, buy_date) ==
    IF splits = <<>> THEN [qty |-> adjusted_qty, price |-> adjusted_price]
    ELSE LET split == Head(splits) IN
         IF split.record_date # None /\ buy_date < split.record_date
         THEN AdjustLoop(Tail(splits),
                         (adjusted_qty * split.ratio_to) \div split.ratio_from,
                         DivHalfEven(adjusted_price * split.ratio_from, split.ratio_to),
                         buy_date)
         ELSE AdjustLoop(Tail(splits), adjusted_qty, adjusted_price, buy_date)

adjust_quantity_for_splits(original_qty, original_price, buy_date, splits) ==
    AdjustLoop(splits, original_qty, original_price, buy_date)

InitAdjust ==
    /\ engine = NewEngine
    /\ hist = <<>>
    /\ trades = {}
    /\ allocations = {}
    /\ next_id = 1
    /\ requests = NoRequests
    /\ corporate_actions = {}
    /\ last = NoCall

AdjustQuantityForSplits ==
    /\ \E original_qty \in OriginalQuantities, original_price \in OriginalPrices,
          buy_date \in PurchaseDates, splits \in SplitLists :
         LET r == adjust_quantity_for_splits(original_qty, original_price, buy_date, splits)
         IN last' = [op |-> "adjust_quantity_for_splits",
                     original_qty |-> original_qty, original_price |-> original_price,
                     buy_date |-> buy_date, splits |-> splits,
                     adjusted_qty |-> r.qty, adjusted_price |-> r.price]
    /\ UNCHANGED <<engine, hist, trades, allocations, next_id, requests, corporate_actions>>

NextAdjust == AdjustQuantityForSplits

SpecAdjust == InitAdjust /\ [][NextAdjust]_vars

\* Some split of the call applies to the purchase: it has a record date
\* and the purchase is dated before it.
SomeSplitApplies ==
    \E i \in 1..Len(last.splits) :
       /\ last.splits[i].record_date # None
       /\ last.buy_date < last.splits[i].record_date

\* C20 as stated: the adjustment leaves the purchase's total value
\* unchanged: for every purchase dated before the record date and every
\* split ratio_from:ratio_to, adjusted quantity times adjusted price equals
\* original quantity times original price; a purchase dated on or after
\* the record date is returned unchanged.
C20_Original ==
    (last.op = "adjust_quantity_for_splits")
       => /\ last.adjusted_qty * last.adjusted_price
               = last.original_qty * last.original_price
          /\ (~ SomeSplitApplies)
               => /\ last.adjusted_qty = last.original_qty
                  /\ last.adjusted_price = last.original_price

----------------------------------------------------------------------------
(* Lot and conservation properties of the FIFO engine (SpecFifo) *)

\* A process_buy call has just been made.
BuyCalled == hist' # hist /\ last'.op = "process_buy"

\* C25: after any sequence of process_buy and process_sell calls with
\* positive quantities every queued lot has 0 < remaining_qty <= its
\* original quantity (a lot that reaches 0 has left the queue); the
\* remaining quantity of a lot never increases; process_buy changes no
\* queued lot and appends the new lot, whole, at the tail.
C25_LotsStayWithinQuantity ==
    /\ [](\A i \in 1..Len(engine.buy_lots) :
             /\ engine.buy_lots[i].remaining_qty > 0
             /\ engine.buy_lots[i].remaining_qty <= engine.buy_lots[i].quantity)
    /\ [][/\ \A j \in 1..Len(engine'.buy_lots) :
               \A i \in 1..Len(engine.buy_lots) :
                  (engine'.buy_lots[j].trade_id = engine.buy_lots[i].trade_id)
                     => (engine'.buy_lots[j].remaining_qty <= engine.buy_lots[i].remaining_qty)
          /\ BuyCalled
               => /\ Len(engine'.buy_lots) = Len(engine.buy_lots) + 1
                  /\ SubSeq(engine'.buy_lots, 1, Len(engine.buy_lots)) = engine.buy_lots
                  /\ engine'.buy_lots[Len(engine'.buy_lots)].trade_id = last'.trade_id
                  /\ engine'.buy_lots[Len(engine'.buy_lots)].quantity = last'.quantity
                  /\ engine'.buy_lots[Len(engine'.buy_lots)].remaining_qty = last'.quantity
                  /\ engine'.matched_lots = engine.matched_lots]_vars

C25_Witness ==
    /\ last.op = "process_buy"
    /\ Len(engine.buy_lots) = 2
    /\ engine.buy_lots[1].remaining_qty < engine.buy_lots[1].quantity
    /\ engine.matched_lots # <<>>
    /\ engine.matched_lots[1].buy_trade_id # engine.buy_lots[1].trade_id

\* Total quantity of the realized records that carry a purchase's id.
RECURSIVE MatchedOf(_, _)
MatchedOf(recs, trade_id) ==
    IF recs = <<>> THEN 0
    ELSE (IF Head(recs).buy_trade_id = trade_id THEN Head(recs).quantity ELSE 0)
         + MatchedOf(Tail(recs), trade_id)

\* Remaining quantity of a purchase's lot; 0 if it has left the queue.
RECURSIVE RemainingOf(_, _)
RemainingOf(lots, trade_id) ==
    IF lots = <<>> THEN 0
    ELSE IF Head(lots).trade_id = trade_id THEN Head(lots).remaining_qty
    ELSE RemainingOf(Tail(lots), trade_id)

RECURSIVE SumBuyValue(_)
SumBuyValue(recs) ==
    IF recs = <<>> THEN 0 ELSE Head(recs).buy_value + SumBuyValue(Tail(recs))

\* remaining_qty * price over the queued lots (BuyLot.value).
RECURSIVE SumLotValue(_)
SumLotValue(lots) ==
    IF lots = <<>> THEN 0
    ELSE Head(lots).remaining_qty * Head(lots).price + SumLotValue(Tail(lots))

\* quantity * price over the purchases made.
RECURSIVE SumPurchaseValue(_)
SumPurchaseValue(h) ==
    IF h = <<>> THEN 0
    ELSE (IF Head(h).op = "process_buy" THEN Head(h).quantity * Head(h).price ELSE 0)
         + SumPurchaseValue(Tail(h))

\* C27: the engine conserves quantity and cost: for every purchase the
\* quantities of the realized records with its transaction id plus its
\* lot's remaining quantity (0 if evicted) equal its original quantity;
\* the matched quantities of all realized records sum to the total
\* quantity of the accepted disposals; the realized buy values plus the
\* value (remaining x price) of the queued lots equal the sum of
\* quantity x price over all purchases.
C27_QuantityAndCostConserved ==
    /\ \A i \in 1..Len(hist) :
         (hist[i].op = "process_buy")
            => (MatchedOf(engine.matched_lots, hist[i].trade_id)
                  + RemainingOf(engine.buy_lots, hist[i].trade_id) = hist[i].quantity)
    /\ SumQuantity(engine.matched_lots) = TotalDisposed
    /\ SumBuyValue(engine.matched_lots) + SumLotValue(engine.buy_lots)
         = SumPurchaseValue(hist)

C27_Witness ==
    /\ Len(engine.matched_lots) >= 3
    /\ Len(engine.buy_lots) >= 1
    /\ \E i, j \in 1..Len(engine.matched_lots) :
         /\ i # j
         /\ engine.matched_lots[i].buy_trade_id = engine.matched_lots[j].buy_trade_id
    /\ \E i \in 1..Len(engine.matched_lots) :
         engine.matched_lots[i].buy_price # engine.buy_lots[1].price

----------------------------------------------------------------------------
(* Failed updates of an allocation (SpecLedger) *)

\* An update_allocation call has just failed.
UpdateFailed == last'.op = "update_allocation" /\ last'.error # "none"

\* C28: update_allocation is all-or-nothing: when a call fails for any
\* reason the allocation's owner, goal and quantity are the same as before
\* the call, also when the call carried a valid new owner or goal together
\* with the rejected field, so that nothing of the failed update is there
\* for a later commit of the session to persist.
C28_Original ==
    [][UpdateFailed => allocations' = allocations]_vars

----------------------------------------------------------------------------
(* Default allocations after an import (SpecImport) *)

\* Owner.get_default() and Goal.get_default(): the seeded default rows.
DefaultOwner == 1
DefaultGoal == 1

\* <<owner_id, goal_id, quantity>> of the create calls made between imports
OwnerArgs == { <<2, 1, 30>>, <<2, 2, 60>>, <<1, 1, 30>>, <<1, 2, 150>> }

\* min(lot.trade_date for lot in holdings)
RECURSIVE EarliestDate(_)
EarliestDate(lots) ==
    IF Len(lots) = 1 THEN Head(lots).trade_date
    ELSE Min(Head(lots).trade_date, EarliestDate(Tail(lots)))

\* What Allocation.query.filter_by(owner_id=default, goal_id=default).first()
\* can return: <<>> (None) if no row matches, else <<row>> for any matching row.
FirstDefault(allocs) ==
    LET found == { a \in allocs : a.owner_id = DefaultOwner /\ a.goal_id = DefaultGoal }
    IN IF found = {} THEN { <<>> } ELSE { <<a>> : a \in found }

\* create_default_allocations for the one pair of the account: replay the
\* stored trades (ORDER BY trade_datetime, trade_date; NULL sorts first),
\* then set or create the default owner/goal allocation with all the units
\* held.  existing is what the filter_by(...).first() query returned.
create_default_allocations(rows, allocs, existing, id) ==
    LET e == GetFifoEngine(rows)
        holdings == get_current_holdings_as_lots(e)
        total_qty == SumRemaining(holdings)
        avg_price == Numeric15_4(SumLotValue(holdings), total_qty)
        earliest_date == EarliestDate(holdings)
    IN IF holdings = <<>> \/ total_qty = 0
       THEN [allocations |-> allocs, created |-> 0, updated |-> 0]
       ELSE IF existing # <<>>
       THEN IF existing[1].quantity # total_qty
            THEN [allocations |->
                     Replace(allocs, existing[1],
                             [existing[1] EXCEPT !.quantity = total_qty,
                                                 !.buy_price = avg_price,
                                                 !.buy_date = earliest_date]),
                  created |-> 0, updated |-> 1]
            ELSE [allocations |-> allocs, created |-> 0, updated |-> 0]
       ELSE [allocations |-> allocs \cup
                {Allocation(id, DefaultOwner, DefaultGoal, total_qty, avg_price, earliest_date)},
             created |-> 1, updated |-> 0]

InitImport == InitLedger

\* POST of an allocation for any owner and goal (the create route).
CreateAllocationOfOwner ==
    /\ next_id <= MaxAllocId
    /\ \E args \in OwnerArgs :
         LET r == create_allocation(Fifo, allocations, next_id, args[1], args[2], args[3])
         IN /\ allocations' = r.allocations
            /\ next_id' = IF r.error = "none" THEN next_id + 1 ELSE next_id
            /\ last' = Call("create_allocation", IF r.error = "none" THEN next_id ELSE None,
                            args[1], args[2], args[3], r.error, 0, 0)
    /\ UNCHANGED <<requests, corporate_actions, engine, hist, trades>>

\* The default-allocations route: create_default_allocations on the stored trades.
CreateDefaultAllocations ==
    /\ next_id <= MaxAllocId + 1
    /\ \E existing \in FirstDefault(allocations) :
         LET r == create_default_allocations(trades, allocations, existing, next_id)
         IN /\ allocations' = r.allocations
            /\ next_id' = next_id + r.created
            /\ last' = Call("create_default_allocations", None, DefaultOwner, DefaultGoal,
                            None, "none", r.updated, 0)
    /\ UNCHANGED <<requests, corporate_actions, engine, hist, trades>>

\* full_import of one tradebook: the trades are stored, then the default
\* allocations are created or updated.
FullImport ==
    /\ next_id <= MaxAllocId + 1
    /\ \E t \in TradeInputs :
         /\ ~ \E r \in trades : r.trade_id = t.trade_id
         /\ trades' = trades \cup {t}
         /\ engine' = GetFifoEngine(trades \cup {t})
         /\ \E existing \in FirstDefault(allocations) :
              LET r == create_default_allocations(trades \cup {t}, allocations,
                                                  existing, next_id)
              IN /\ allocations' = r.allocations
                 /\ next_id' = next_id + r.created
                 /\ last' = Call("full_import", None, DefaultOwner, DefaultGoal,
                                 None, "none", r.updated, 0)
    /\ UNCHANGED <<requests, corporate_actions, hist>>

NextImport ==
    \/ ImportTrade
    \/ CreateAllocationOfOwner
    \/ CreateDefaultAllocations
    \/ FullImport

SpecImport == InitImport /\ [][NextImport]_vars

\* create_default_allocations has just run (by its route or in full_import).
DefaultsCreated == last.op \in {"create_default_allocations", "full_import"}

\* C29: create_default_allocations keeps the ledger invariant: after the
\* call the sum of all the pair's allocation quantities (the default
\* allocation together with those of other owners and goals) is at most
\* the pair's FIFO holdings, whatever allocations existed before the call.
C29_Original ==
    DefaultsCreated => SumAllocated(allocations) <= get_available_quantity(engine)

----------------------------------------------------------------------------
(* Order of the trades of a rebuild (SpecLedger) *)

\* C24: whenever an engine is rebuilt from the pair's stored trades, the
\* trades are processed in ascending trade-date order, a trade without a
\* timestamp coming before the timestamped ones of the same date only: no
\* trade is processed before a trade with a strictly earlier trade date, so
\* the lot queue is in ascending origin-date order.
C24_Original ==
    LET ordered == OrderedTrades(trades)
    IN /\ \A i, j \in 1..Len(ordered) :
            i < j => ordered[i].trade_date <= ordered[j].trade_date
       /\ \A i, j \in 1..Len(engine.buy_lots) :
            i < j => engine.buy_lots[i].trade_date <= engine.buy_lots[j].trade_date

----------------------------------------------------------------------------
(* SpecHoldings: HoldingsCalculator rebuilds the engine of a pair from    *)
(* its stored trades and its split records.                               *)

\* The trades a tradebook can bring (10 units bought on days 10, 30, 60,
\* 70 at 100, 70, 50, 90; 5 units sold on day 80), none with a timestamp.
HoldingsTrades ==
    { [trade_type |-> "buy", trade_date |-> 10, trade_datetime |-> NULL,
       quantity |-> 10, price |-> 100 * PriceScale, trade_id |-> 1],
      [trade_type |-> "buy", trade_date |-> 30, trade_datetime |-> NULL,
       quantity |-> 10, price |-> 70 * PriceScale, trade_id |-> 2],
      [trade_type |-> "buy", trade_date |-> 60, trade_datetime |-> NULL,
       quantity |-> 10, price |-> 50 * PriceScale, trade_id |-> 3],
      [trade_type |-> "buy", trade_date |-> 70, trade_datetime |-> NULL,
       quantity |-> 10, price |-> 90 * PriceScale, trade_id |-> 4],
      [trade_type |-> "sell", trade_date |-> 80, trade_datetime |-> NULL,
       quantity |-> 5, price |-> 55 * PriceScale, trade_id |-> 5] }

\* The split proposals saved from elsewhere: a 1:2 split recorded on day 50
\* with its prices, and a 1:5 split for which no anchor pair was found.
SplitProposals ==
    { [stock_id |-> 1, action_type |-> "split", ratio_from |-> 1, ratio_to |-> 2,
       detected_date |-> 50, old_price |-> 100 * PriceScale, new_price |-> 50 * PriceScale],
      [stock_id |-> 1, action_type |-> "split", ratio_from |-> 1, ratio_to |-> 5,
       detected_date |-> None, old_price |-> None, new_price |-> None] }

\* detect_and_save_splits: price pattern first, then sell mismatch; a
\* detected split is saved (or the row of the same key returned).
detect_and_save_splits(rows, cas) ==
    LET by_prices == detect_split_from_prices(rows)
        split_data == IF by_prices.found THEN by_prices
                      ELSE detect_split_from_sell_mismatch(rows)
    IN IF split_data.found
       THEN LET r == save_corporate_action(cas,
                        [stock_id |-> 1, action_type |-> split_data.action_type,
                         ratio_from |-> split_data.ratio_from,
                         ratio_to |-> split_data.ratio_to,
                         detected_date |-> split_data.detected_date,
                         old_price |-> split_data.old_price,
                         new_price |-> split_data.new_price])
            IN [rows |-> r.rows, detected |-> {r.returned}]
       ELSE [rows |-> cas, detected |-> {}]

\* max(splits, key=lambda s: s.record_date or date.min): the most recent
\* split (None, which is below every date here, counts as the earliest).
MostRecentSplit(splits) ==
    CHOOSE s \in splits : \A o \in splits : o.record_date <= s.record_date

\* The test that takes a buy for a pre-split one: both prices of the split
\* are set and float(trade.price) / float(new_price) > ratio * 0.8, with
\* ratio = ratio_to / ratio_from.  (No price drawn here is on the boundary,
\* where the float product decides.)
IsPreSplitBuy(trade, split) ==
    /\ split.old_price \notin {None, 0}
    /\ split.new_price \notin {None, 0}
    /\ split.new_price > 0
    /\ 10 * trade.price * split.ratio_from > 8 * split.ratio_to * split.new_price

\* The quantity and price handed to the engine for one trade:
\* int(quantity * ratio) and Decimal(str(float(price) / ratio)) for a buy
\* taken for pre-split, the recorded ones otherwise.  (The prices drawn
\* here divide by the ratios drawn without remainder below 0.0001.)
AdjustedTrade(trade, splits) ==
    IF splits # {} /\ trade.trade_type = "buy" /\ IsPreSplitBuy(trade, MostRecentSplit(splits))
    THEN LET split == MostRecentSplit(splits)
         IN [trade EXCEPT !.quantity = (trade.quantity * split.ratio_to) \div split.ratio_from,
                          !.price = (trade.price * split.ratio_from) \div split.ratio_to]
    ELSE trade

RECURSIVE AdjustedTrades(_, _)
AdjustedTrades(ordered, splits) ==
    IF ordered = <<>> THEN <<>>
    ELSE <<AdjustedTrade(Head(ordered), splits)>> \o AdjustedTrades(Tail(ordered), splits)

\* HoldingsCalculator._get_fifo_engine of a new calculator: the trades in
\* the SQL order, the split records (detected and saved if there is none),
\* the adjusted trades and the engine that processed them.
HoldingsEngine(rows, cas) ==
    LET stored == { ca \in cas : ca.stock_id = 1 /\ ca.action_type = "split" }
        d == IF stored = {} THEN detect_and_save_splits(rows, cas)
             ELSE [rows |-> cas, detected |-> {}]
        splits == IF stored = {} THEN d.detected ELSE stored
        processed == AdjustedTrades(OrderedTrades(rows), splits)
    IN [corporate_actions |-> d.rows,
        splits |-> splits,
        processed |-> processed,
        engine |-> ReplayTrades(NewEngine, processed)]

InitHoldings ==
    /\ engine = NewEngine
    /\ hist = <<>>
    /\ trades = {}
    /\ allocations = {}
    /\ next_id = 1
    /\ requests = NoRequests
    /\ corporate_actions = {}
    /\ last = NoCall

\* A tradebook import stores a trade of the pair that is not stored yet.
StoreTrade ==
    /\ \E t \in HoldingsTrades :
         /\ t \notin trades
         /\ trades' = trades \cup {t}
         /\ last' = [op |-> "import_trade", trade_id |-> t.trade_id]
    /\ UNCHANGED <<engine, hist, allocations, next_id, requests, corporate_actions>>

\* A split proposal is saved.
SaveSplit ==
    /\ \E action_data \in SplitProposals :
         LET r == save_corporate_action(corporate_actions, action_data)
         IN /\ corporate_actions' = r.rows
            /\ last' = [op |-> "save_corporate_action", created |-> r.created]
    /\ UNCHANGED <<engine, hist, trades, allocations, next_id, requests>>

\* A holdings request: a new HoldingsCalculator builds the pair's engine.
\* hist keeps the trades as they were handed to the engine.
GetHoldingsEngine ==
    /\ LET r == HoldingsEngine(trades, corporate_actions)
       IN /\ corporate_actions' = r.corporate_actions
          /\ engine' = r.engine
          /\ hist' = r.processed
          /\ last' = [op |-> "_get_fifo_engine", splits |-> r.splits]
    /\ UNCHANGED <<trades, allocations, next_id, requests>>

NextHoldings ==
    \/ StoreTrade
    \/ SaveSplit
    \/ GetHoldingsEngine

SpecHoldings == InitHoldings /\ [][NextHoldings]_vars

\* The stored trade a processed trade came from.
StoredTrade(trade_id) == CHOOSE t \in trades : t.trade_id = trade_id

----------------------------------------------------------------------------
(* ReconciliationService: the tradebook against the Tax P&L report.       *)
(* Amounts (prices, values) are in hundredths here: buy_value is a        *)
(* Numeric(15,2) and the prices drawn have two decimals.                  *)

Cent == 100

\* ReconciliationService.COMMON_SPLIT_RATIOS
RECON_SPLIT_RATIOS == <<2, 3, 4, 5, 10, 20, 25, 50, 100>>

\* VALUE_TOLERANCE = Decimal('0.01'), in percent
VALUE_TOLERANCE == 1

\* <<bonus_num, bonus_den, twice the expected quantity ratio>>:
\* (1, 1, 2.0), (1, 2, 1.5), (2, 1, 3.0), (3, 1, 4.0)
bonus_ratios == << <<1, 1, 4>>, <<1, 2, 3>>, <<2, 1, 6>>, <<3, 1, 8>> >>

\* No isin is set on the rows drawn, so the lookup is by symbol.
get_trades_for_symbol(tradebook_trades, symbol) ==
    SelectSeq(tradebook_trades, LAMBDA t : t.symbol = symbol)

\* abs(value1 - value2) / max(abs(value1), abs(value2)) <= tolerance, the
\* tolerance in percent (Decimal arithmetic, exact for these amounts).
values_match(value1, value2, tolerance) ==
    IF value1 = 0 /\ value2 = 0 THEN TRUE
    ELSE IF value1 = 0 \/ value2 = 0 THEN FALSE
    ELSE 100 * Abs(value1 - value2) <= tolerance * Max(Abs(value1), Abs(value2))

\* find_matching_buy: the first buy of the symbol on the entry date, else
\* the first within one day of it, whose quantity * price matches the
\* entry's buy value: <<trade>>, or <<>> for None.
find_matching_buy(tradebook_trades, taxpnl_entry) ==
    LET trades_of == get_trades_for_symbol(tradebook_trades, taxpnl_entry.symbol)
        buy_trades == SelectSeq(trades_of, LAMBDA t : t.trade_type = "buy")
        Exact(trade) ==
            /\ trade.trade_date = taxpnl_entry.entry_date
            /\ values_match(trade.quantity * trade.price, taxpnl_entry.buy_value,
                            VALUE_TOLERANCE)
        Close(trade) ==
            /\ Abs(trade.trade_date - taxpnl_entry.entry_date) <= 1
            /\ values_match(trade.quantity * trade.price, taxpnl_entry.buy_value,
                            VALUE_TOLERANCE)
        exact == SelectSeq(buy_trades, Exact)
        close == SelectSeq(buy_trades, Close)
    IN IF exact # <<>> THEN <<exact[1]>>
       ELSE IF close # <<>> THEN <<close[1]>>
       ELSE <<>>

\* The loop of detect_stock_split over the ratio table: the first ratio
\* with abs(pnl_qty / tb_qty - ratio) < 0.01 and
\* abs(pnl_price - tb_price / ratio) / tb_price < 0.02, where
\* pnl_price = pnl_value / pnl_qty, or 0 if pnl_qty is 0.
\* new_price is float(pnl_price), kept as <<pnl_value, pnl_qty>>.
RECURSIVE SplitRatioLoop(_, _, _)
SplitRatioLoop(tradebook_entry, taxpnl_entry, k) ==
    IF k > Len(RECON_SPLIT_RATIOS) THEN <<>>
    ELSE LET ratio == RECON_SPLIT_RATIOS[k]
             tb_qty == tradebook_entry.quantity
             tb_price == tradebook_entry.price
             pnl_qty == taxpnl_entry.quantity
             pnl_value == taxpnl_entry.buy_value
             price_inverse ==
                 IF pnl_qty = 0 THEN 50 < ratio
                 ELSE 50 * Abs(pnl_value * ratio - tb_price * pnl_qty)
                         < tb_price * pnl_qty * ratio
         IN IF 100 * Abs(pnl_qty - ratio * tb_qty) < tb_qty /\ price_inverse
            THEN << [action_type |-> "split", symbol |-> taxpnl_entry.symbol,
                     ratio_from |-> 1, ratio_to |-> ratio,
                     old_price |-> tb_price, new_price |-> <<pnl_value, pnl_qty>>,
                     detected_automatically |-> TRUE,
                     confidence |-> IF 1000 * Abs(pnl_qty - ratio * tb_qty) < tb_qty
                                    THEN "high" ELSE "medium"] >>
            ELSE SplitRatioLoop(tradebook_entry, taxpnl_entry, k + 1)

detect_stock_split(tradebook_entry, taxpnl_entry) ==
    LET tb_value == tradebook_entry.quantity * tradebook_entry.price
    IN IF ~ values_match(tb_value, taxpnl_entry.buy_value, 2) THEN <<>>
       ELSE IF tradebook_entry.quantity = 0 THEN <<>>
       ELSE SplitRatioLoop(tradebook_entry, taxpnl_entry, 1)

\* The loop of detect_bonus_issue over bonus_ratios:
\* abs(pnl_qty / tb_qty - expected_ratio) < 0.01.
RECURSIVE BonusRatioLoop(_, _, _)
BonusRatioLoop(tradebook_entry, taxpnl_entry, k) ==
    IF k > Len(bonus_ratios) THEN <<>>
    ELSE LET bonus_num == bonus_ratios[k][1]
             bonus_den == bonus_ratios[k][2]
             twice_expected == bonus_ratios[k][3]
             tb_qty == tradebook_entry.quantity
             pnl_qty == taxpnl_entry.quantity
         IN IF 100 * Abs(2 * pnl_qty - twice_expected * tb_qty) < 2 * tb_qty
            THEN << [action_type |-> "bonus", symbol |-> taxpnl_entry.symbol,
                     ratio_from |-> bonus_den, ratio_to |-> bonus_num,
                     old_price |-> tradebook_entry.price,
                     new_price |-> <<taxpnl_entry.buy_value, pnl_qty>>,
                     detected_automatically |-> TRUE,
                     confidence |-> "medium"] >>
            ELSE BonusRatioLoop(tradebook_entry, taxpnl_entry, k + 1)

detect_bonus_issue(tradebook_entry, taxpnl_entry) ==
    LET tb_value == tradebook_entry.quantity * tradebook_entry.price
    IN IF ~ values_match(tb_value, taxpnl_entry.buy_value, 2) THEN <<>>
       ELSE IF taxpnl_entry.quantity <= tradebook_entry.quantity THEN <<>>
       ELSE BonusRatioLoop(tradebook_entry, taxpnl_entry, 1)

\* min(t['trade_date'] for t in tradebook_trades), None without trades
RECURSIVE earliest_tradebook_date(_)
earliest_tradebook_date(tradebook_trades) ==
    IF tradebook_trades = <<>> THEN None
    ELSE IF Len(tradebook_trades) = 1 THEN Head(tradebook_trades).trade_date
    ELSE Min(Head(tradebook_trades).trade_date,
             earliest_tradebook_date(Tail(tradebook_trades)))

\* (mutation) an entry dated on the earliest tradebook date counts as before it
before_tradebook_OnOrBefore(earliest, entry_date) ==
    earliest # None /\ entry_date <= earliest

\* earliest_tradebook_date and entry_date < earliest_tradebook_date
before_tradebook(earliest, entry_date) ==
    earliest # None /\ entry_date < earliest

Discrepancy(symbol, discrepancy_type, tradebook_data, taxpnl_data, detected_action, severity) ==
    [symbol |-> symbol, discrepancy_type |-> discrepancy_type,
     tradebook_data |-> tradebook_data, taxpnl_data |-> taxpnl_data,
     detected_action |-> detected_action, severity |-> severity]

TradebookData(trade) ==
    << [trade_id |-> trade.trade_id, quantity |-> trade.quantity,
        price |-> trade.price, date |-> trade.trade_date] >>

TaxpnlData(entry) ==
    [quantity |-> entry.quantity, buy_value |-> entry.buy_value,
     entry_date |-> entry.entry_date]

\* (mutation) the discrepancy of a detected action has the default severity
corporate_action_discrepancy_Warning(trade, entry, action) ==
    Discrepancy(entry.symbol, "corporate_action", TradebookData(trade), TaxpnlData(entry),
                action, "warning")

\* The Discrepancy appended with a detected split or bonus.
corporate_action_discrepancy(trade, entry, action) ==
    Discrepancy(entry.symbol, "corporate_action", TradebookData(trade), TaxpnlData(entry),
                action, "info")

NewResult ==
    [matched |-> <<>>, discrepancies |-> <<>>, corporate_actions |-> <<>>,
     missing_tradebook_entries |-> <<>>]

\* The body of the for loop of reconcile for one entry.
ReconcileEntry(result, tradebook_trades, earliest, entry) ==
    IF before_tradebook(earliest, entry.entry_date)
    THEN [result EXCEPT !.missing_tradebook_entries =
             Append(@, [symbol |-> entry.symbol, entry_date |-> entry.entry_date,
                        quantity |-> entry.quantity, buy_value |-> entry.buy_value])]
    ELSE
    LET found == find_matching_buy(tradebook_trades, entry)
    IN IF found = <<>>
       THEN [result EXCEPT !.discrepancies =
                Append(@, Discrepancy(entry.symbol, "missing_trade", <<>>,
                                      TaxpnlData(entry), <<>>, "warning"))]
       ELSE
       LET matching_trade == found[1]
           split_action == detect_stock_split(matching_trade, entry)
           bonus_action == detect_bonus_issue(matching_trade, entry)
       IN IF /\ matching_trade.quantity = entry.quantity
             /\ values_match(matching_trade.quantity * matching_trade.price,
                             entry.buy_value, VALUE_TOLERANCE)
          THEN [result EXCEPT !.matched =
                   Append(@, [symbol |-> entry.symbol, entry_date |-> entry.entry_date,
                              tradebook_trade_id |-> matching_trade.trade_id,
                              quantity |-> entry.quantity,
                              buy_value |-> entry.buy_value])]
          ELSE IF split_action # <<>>
          THEN [result EXCEPT
                   !.corporate_actions = Append(@, split_action[1]),
                   !.discrepancies =
                       Append(@, corporate_action_discrepancy(matching_trade, entry,
                                                              split_action))]
          ELSE IF bonus_action # <<>>
          THEN [result EXCEPT
                   !.corporate_actions = Append(@, bonus_action[1]),
                   !.discrepancies =
                       Append(@, corporate_action_discrepancy(matching_trade, entry,
                                                              bonus_action))]
          ELSE [result EXCEPT !.discrepancies =
                   Append(@, Discrepancy(entry.symbol,
                                         IF matching_trade.quantity # entry.quantity
                                         THEN "quantity_mismatch" ELSE "price_mismatch",
                                         TradebookData(matching_trade), TaxpnlData(entry),
                                         <<>>, "warning"))]

RECURSIVE ReconcileLoop(_, _, _, _)
ReconcileLoop(result, tradebook_trades, earliest, entries) ==
    IF entries = <<>> THEN result
    ELSE ReconcileLoop(ReconcileEntry(result, tradebook_trades, earliest, Head(entries)),
                       tradebook_trades, earliest, Tail(entries))

\* The entries reconcile works on: all, or those of the financial year.
FilteredEntries(taxpnl_entries, financial_year) ==
    IF financial_year = "" THEN taxpnl_entries
    ELSE SelectSeq(taxpnl_entries, LAMBDA e : e.financial_year = financial_year)

\* reconcile; match_rate (matched / entries * 100) is kept as the pair
\* <<100 * matched, entries>>, and is 0 without entries.
reconcile(tradebook_trades, taxpnl_entries, financial_year) ==
    LET entries == FilteredEntries(taxpnl_entries, financial_year)
        result == ReconcileLoop(NewResult, tradebook_trades,
                                earliest_tradebook_date(tradebook_trades), entries)
    IN [matched |-> result.matched,
        discrepancies |-> result.discrepancies,
        corporate_actions |-> result.corporate_actions,
        missing_tradebook_entries |-> result.missing_tradebook_entries,
        summary |-> [total_taxpnl_entries |-> Len(entries),
                     matched |-> Len(result.matched),
                     discrepancies |-> Len(result.discrepancies),
                     corporate_actions |-> Len(result.corporate_actions),
                     missing_tradebook_entries |-> Len(result.missing_tradebook_entries),
                     match_rate |-> IF entries # <<>>
                                    THEN <<100 * Len(result.matched), Len(entries)>>
                                    ELSE <<0, 1>>]]

----------------------------------------------------------------------------
(* SpecReconcile: reconcile applied to tradebooks and reports drawn from  *)
(* small sets.                                                            *)

ReconTrade(symbol, trade_type, trade_date, quantity, price, trade_id) ==
    [symbol |-> symbol, trade_type |-> trade_type, trade_date |-> trade_date,
     quantity |-> quantity, price |-> price, trade_id |-> trade_id]

\* The tradebooks: none; one buy of 10 at 100.00 on day 10; that buy and a
\* buy of 20 at 50.00 on day 11; a sale of symbol B on day 5 and the buy.
TradebookLists ==
    { <<>>,
      << ReconTrade("A", "buy", 10, 10, 100 * Cent, 1) >>,
      << ReconTrade("A", "buy", 10, 10, 100 * Cent, 1),
         ReconTrade("A", "buy", 11, 20, 50 * Cent, 2) >>,
      << ReconTrade("B", "sell", 5, 4, 25 * Cent, 3),
         ReconTrade("A", "buy", 10, 10, 100 * Cent, 1) >> }

TaxpnlEntry(symbol, entry_date, quantity, buy_value, financial_year) ==
    [symbol |-> symbol, entry_date |-> entry_date, quantity |-> quantity,
     buy_value |-> buy_value, financial_year |-> financial_year]

\* The report entries: <<entry_date, quantity, buy_value, financial_year>>
\* of symbol A.
TaxpnlEntries ==
    { TaxpnlEntry("A", e[1], e[2], e[3], e[4]) :
        e \in { <<10, 10, 1000 * Cent, "2024-2025">>,
                <<11, 10, 1005 * Cent, "2024-2025">>,
                <<10, 20, 1000 * Cent, "2024-2025">>,
                <<10, 20, 1009 * Cent, "2023-2024">>,
                <<10, 15, 1000 * Cent, "2024-2025">>,
                <<10, 12, 1000 * Cent, "2024-2025">>,
                <<10, 30, 1005 * Cent, "2024-2025">>,
                <<10, 10, 1015 * Cent, "2024-2025">>,
                <<12, 10, 1000 * Cent, "2024-2025">>,
                <<9, 10, 1000 * Cent, "2023-2024">> } }

\* The reports: up to two entries.
TaxpnlLists ==
    { <<>> } \cup { <<e>> : e \in TaxpnlEntries }
             \cup { <<e, f>> : e \in TaxpnlEntries, f \in TaxpnlEntries }

FinancialYears == { "", "2024-2025" }

InitReconcile ==
    /\ engine = NewEngine
    /\ hist = <<>>
    /\ trades = {}
    /\ allocations = {}
    /\ next_id = 1
    /\ requests = NoRequests
    /\ corporate_actions = {}
    /\ last = NoCall

Reconcile ==
    /\ \E tradebook_trades \in TradebookLists, taxpnl_entries \in TaxpnlLists,
          financial_year \in FinancialYears :
         last' = [op |-> "reconcile",
                  tradebook_trades |-> tradebook_trades,
                  taxpnl_entries |-> taxpnl_entries,
                  financial_year |-> financial_year,
                  result |-> reconcile(tradebook_trades, taxpnl_entries, financial_year)]
    /\ UNCHANGED <<engine, hist, trades, allocations, next_id, requests, corporate_actions>>

NextReconcile == Reconcile

SpecReconcile == InitReconcile /\ [][NextReconcile]_vars

----------------------------------------------------------------------------
(* Properties of reconcile (SpecReconcile) *)

Reconciled == last.op = "reconcile"

\* The entries the last reconcile call worked on.
Entries == FilteredEntries(last.taxpnl_entries, last.financial_year)

\* The entry date precedes the date of every trade of a tradebook that has trades.
PrecedesTradebook(entry_date) ==
    /\ last.tradebook_trades # <<>>
    /\ \A i \in 1..Len(last.tradebook_trades) :
         entry_date < last.tradebook_trades[i].trade_date

\* The discrepancies of the last result that carry a detected action.
ActionDiscrepancies ==
    SelectSeq(last.result.discrepancies, LAMBDA d : d.discrepancy_type = "corporate_action")

\* The last call had one entry to work on, which has a candidate buy.
OneEntryWithCandidate ==
    /\ Reconciled
    /\ Len(Entries) = 1
    /\ ~ PrecedesTradebook(Entries[1].entry_date)
    /\ find_matching_buy(last.tradebook_trades, Entries[1]) # <<>>

Candidate == find_matching_buy(last.tradebook_trades, Entries[1])[1]

\* C21: an entry whose candidate buy has half the report quantity and a
\* value equal to the report's buy value within 2% (quantity ratio 2.0,
\* the 1:1 row of the bonus table) yields a proposal of type 'bonus' and a
\* 'corporate_action' discrepancy, not a generic mismatch.
C21_Original ==
    (/\ OneEntryWithCandidate
     /\ Entries[1].quantity = 2 * Candidate.quantity
     /\ values_match(Candidate.quantity * Candidate.price, Entries[1].buy_value, 2))
       => /\ Len(last.result.corporate_actions) = 1
          /\ last.result.corporate_actions[1].action_type = "bonus"
          /\ Len(last.result.discrepancies) = 1
          /\ last.result.discrepancies[1].discrepancy_type = "corporate_action"

\* C22: when an entry has a candidate buy from which it differs and neither
\* the split nor the bonus heuristic explains the difference, exactly one
\* discrepancy of severity warning is emitted, tagged 'quantity_mismatch'
\* when the quantities differ and 'price_mismatch' when the quantities are
\* equal but the values differ.
C22_Original ==
    (/\ OneEntryWithCandidate
     /\ \/ Entries[1].quantity # Candidate.quantity
        \/ Entries[1].buy_value # Candidate.quantity * Candidate.price
     /\ detect_stock_split(Candidate, Entries[1]) = <<>>
     /\ detect_bonus_issue(Candidate, Entries[1]) = <<>>)
       => /\ last.result.matched = <<>>
          /\ Len(last.result.discrepancies) = 1
          /\ last.result.discrepancies[1].severity = "warning"
          /\ last.result.discrepancies[1].discrepancy_type
               = IF Entries[1].quantity # Candidate.quantity
                 THEN "quantity_mismatch" ELSE "price_mismatch"

\* The record reconcile keeps of an entry without transaction history.
MissingRecord(entry) ==
    [symbol |-> entry.symbol, entry_date |-> entry.entry_date,
     quantity |-> entry.quantity, buy_value |-> entry.buy_value]

RECURSIVE MissingRecords(_)
MissingRecords(entries) ==
    IF entries = <<>> THEN <<>>
    ELSE (IF PrecedesTradebook(Head(entries).entry_date)
          THEN <<MissingRecord(Head(entries))>> ELSE <<>>)
         \o MissingRecords(Tail(entries))

\* C23: every entry whose entry date precedes the earliest transaction
\* date is added to missing_tradebook_entries and produces neither a
\* matched pair, nor a discrepancy, nor a proposal; an entry whose entry
\* date does not precede that date is never added to it.
C23_MissingHistoryIsTheEarlierEntries ==
    Reconciled
       => /\ last.result.missing_tradebook_entries = MissingRecords(Entries)
          /\ \A i \in 1..Len(last.result.matched) :
               ~ PrecedesTradebook(last.result.matched[i].entry_date)
          /\ \A i \in 1..Len(last.result.discrepancies) :
               ~ PrecedesTradebook(last.result.discrepancies[i].taxpnl_data.entry_date)
          /\ Len(last.result.matched) + Len(last.result.discrepancies)
               = Len(SelectSeq(Entries, LAMBDA e : ~ PrecedesTradebook(e.entry_date)))
          /\ Len(last.result.corporate_actions) <= Len(last.result.discrepancies)

C23_Witness ==
    /\ Reconciled
    /\ Len(Entries) = 2
    /\ Len(last.result.missing_tradebook_entries) = 1
    /\ \E i \in 1..2 : \E j \in 1..Len(last.tradebook_trades) :
         /\ Entries[i].entry_date = last.tradebook_trades[j].trade_date
         /\ ~ PrecedesTradebook(Entries[i].entry_date)
         /\ \A k \in 1..Len(last.tradebook_trades) :
              last.tradebook_trades[j].trade_date <= last.tradebook_trades[k].trade_date

\* The date, quantity and value of the entry an output record stands for.
KeyOfEntry(e) == <<e.entry_date, e.quantity, e.buy_value>>
KeyOfDiscrepancy(d) ==
    <<d.taxpnl_data.entry_date, d.taxpnl_data.quantity, d.taxpnl_data.buy_value>>

\* C30: reconcile classifies every filtered entry into exactly one of
\* matched, discrepancies and missing_tradebook_entries, so the summary
\* satisfies matched + discrepancies + missing_tradebook_entries =
\* total_taxpnl_entries; each entry adds at most one proposal, and the
\* proposals in corporate_actions are as many as (and the same as those of)
\* the discrepancies tagged 'corporate_action', each of which has severity
\* info while every other discrepancy has severity warning.
C30_EveryEntryClassifiedOnce ==
    Reconciled
       => LET result == last.result
              summary == last.result.summary
          IN /\ summary.total_taxpnl_entries = Len(Entries)
             /\ summary.matched = Len(result.matched)
             /\ summary.discrepancies = Len(result.discrepancies)
             /\ summary.missing_tradebook_entries = Len(result.missing_tradebook_entries)
             /\ summary.corporate_actions = Len(result.corporate_actions)
             /\ summary.matched + summary.discrepancies + summary.missing_tradebook_entries
                  = summary.total_taxpnl_entries
             /\ \A i \in 1..Len(Entries) :
                  LET key == KeyOfEntry(Entries[i])
                  IN Len(SelectSeq(Entries, LAMBDA e : KeyOfEntry(e) = key))
                       = Len(SelectSeq(result.matched, LAMBDA m : KeyOfEntry(m) = key))
                         + Len(SelectSeq(result.discrepancies,
                                         LAMBDA d : KeyOfDiscrepancy(d) = key))
                         + Len(SelectSeq(result.missing_tradebook_entries,
                                 LAMBDA m : KeyOfEntry(m) = key))
             /\ Len(result.corporate_actions) = Len(ActionDiscrepancies)
             /\ \A i \in 1..Len(ActionDiscrepancies) :
                  ActionDiscrepancies[i].detected_action = <<result.corporate_actions[i]>>
             /\ \A i \in 1..Len(result.discrepancies) :
                  result.discrepancies[i].severity
                    = IF result.discrepancies[i].discrepancy_type = "corporate_action"
                      THEN "info" ELSE "warning"

C30_Witness ==
    /\ Reconciled
    /\ Len(last.taxpnl_entries) = 2
    /\ Len(last.result.corporate_actions) = 1
    /\ Len(last.result.discrepancies) = 2
    /\ \E i \in 1..2 : last.result.discrepancies[i].discrepancy_type = "quantity_mismatch"

====
